---- MODULE Spec2Model ----
(***************************************************************************)
(* Distribution detection of virtinst/urldetect.py: getDistroStore, the    *)
(* treeinfo reader, the SUSE content path and the isValidStore method of   *)
(* every Distro class.                                                     *)
(*                                                                         *)
(* Text is modelled by structure: a file body is a sequence of lines, a    *)
(* line a sequence of words; a version string is a sequence of one-        *)
(* character strings; an osdict variant id such as "rhel8.2" is the record *)
(* [fam |-> "rhel", ver |-> <<8, 2>>, tag |-> <<>>].                       *)
(*                                                                         *)
(* The fetcher and the osdict database are external.  Their answers are    *)
(* chosen when a run first asks and are remembered (variables fetcher and  *)
(* osdb), so that a source answers every repeated question the same way.   *)
(***************************************************************************)
EXTENDS Integers, Sequences, FiniteSets, TLC

VARIABLES
    pc,          \* position inside getDistroStore
    run,         \* number of the current detection run
    guest,       \* [arch, os_type, urldistro] read at lines 162-164
    location,    \* fetcher.location
    fetcher,     \* path -> answer of the source, for the paths asked so far
    osdb,        \* query -> answer of OSDB, for the queries asked so far
    treeinfo,    \* local `treeinfo` of getDistroStore
    stores,      \* local `stores` of getDistroStore
    idx,         \* position of the for loop at line 195 inside stores
    store,       \* the probe instance most recently built
    outcome,     \* how the run ended
    trace,       \* what the run did to the source and to probes, in order
    unlinked,    \* local temporary copies released by os.unlink
    clsPaths,    \* the class-level lists Distro._hvm_kernel_paths/_xen_kernel_paths
    globals,     \* the Distro subclasses among globals().values(), in order
    allstores,   \* the module-level _allstores
    earlier,     \* what the run before returned, when the same call is repeated
    scan,        \* the for loop of _parseSUSEContent: fields so far, next line
    fetched      \* what acquireKernel returned: <<>> or <<[kernel, initrd, args]>>

vars == <<pc, run, guest, location, fetcher, osdb, treeinfo, stores, idx,
          store, outcome, trace, unlinked, clsPaths, globals, allstores,
          earlier, scan, fetched>>

\* Number of detection runs explored one after the other.
MaxRuns == 2

None == "None"

\* the five locals of _parseSUSEContent before its loop, lines 47-51; an unset
\* one is <<>>
NoFields == [distribution |-> <<>>, distro_version |-> <<>>,
             distro_summary |-> <<>>, distro_distro |-> <<>>,
             distro_arch |-> <<>>]

\* no content file is being scanned
NoScan == [p |-> NoFields, next |-> 0, broke |-> FALSE, ret |-> <<>>]

-----------------------------------------------------------------------------
(* Generic sequence helpers.                                               *)

Range(s) == {s[i] : i \in 1..Len(s)}

IndexOf(s, x) == CHOOSE i \in 1..Len(s) : s[i] = x

\* list.remove(x): drops the first occurrence of x.
Remove(s, x) ==
    LET i == CHOOSE k \in 1..Len(s) : s[k] = x /\ \A j \in 1..(k - 1) : s[j] # x
    IN  SubSeq(s, 1, i - 1) \o SubSeq(s, i + 1, Len(s))

\* `sub in s` for sequences of words / characters.
Contains(s, sub) ==
    \E i \in 0..(Len(s) - Len(sub)) : SubSeq(s, i + 1, i + Len(sub)) = sub

StartsWith(s, pre) == Len(pre) <= Len(s) /\ SubSeq(s, 1, Len(pre)) = pre

-----------------------------------------------------------------------------
(* The Distro classes, in the order the module defines them.               *)

DeclaredClasses ==
    << "Distro", "GenericDistro", "RedHatDistro", "FedoraDistro", "RHELDistro",
       "CentOSDistro", "SLDistro", "SuseDistro", "SLESDistro", "SLEDDistro",
       "OpensuseDistro", "DebianDistro", "UbuntuDistro", "MandrivaDistro",
       "ALTLinuxDistro" >>

\* class attribute `name`, inherited where a class does not set it
name(cls) ==
    CASE cls = "Distro"         -> None
      [] cls = "GenericDistro"  -> "Generic"
      [] cls = "RedHatDistro"   -> None
      [] cls = "FedoraDistro"   -> "Fedora"
      [] cls = "RHELDistro"     -> "Red Hat Enterprise Linux"
      [] cls = "CentOSDistro"   -> "CentOS"
      [] cls = "SLDistro"       -> "Scientific Linux"
      [] cls = "SuseDistro"     -> "SUSE"
      [] cls = "SLESDistro"     -> "SUSE"
      [] cls = "SLEDDistro"     -> "SUSE"
      [] cls = "OpensuseDistro" -> "SUSE"
      [] cls = "DebianDistro"   -> "Debian"
      [] cls = "UbuntuDistro"   -> "Ubuntu"
      [] cls = "MandrivaDistro" -> "Mandriva/Mageia"
      [] cls = "ALTLinuxDistro" -> "ALT Linux"

\* class attribute `urldistro`
urldistro(cls) ==
    CASE cls = "FedoraDistro"   -> "fedora"
      [] cls = "RHELDistro"     -> "rhel"
      [] cls = "CentOSDistro"   -> "centos"
      [] cls = "SLESDistro"     -> "sles"
      [] cls = "SLEDDistro"     -> "sled"
      [] cls = "OpensuseDistro" -> "opensuse"
      [] cls = "DebianDistro"   -> "debian"
      [] cls = "UbuntuDistro"   -> "ubuntu"
      [] cls = "MandrivaDistro" -> "mandriva"
      [] cls = "ALTLinuxDistro" -> "altlinux"
      [] OTHER                  -> None

\* class attribute `uses_treeinfo`
uses_treeinfo(cls) ==
    cls \in {"GenericDistro", "RedHatDistro", "FedoraDistro", "RHELDistro",
             "CentOSDistro", "SLDistro"}

\* A class object as _build_distro_list sees it.
ClassObject(cls, nm, key) == [cls |-> cls, name |-> nm, urldistro |-> key]

\* the Distro classes of this module as globals().values() yields them
ModuleClasses ==
    [i \in 1..Len(DeclaredClasses) |->
        ClassObject(DeclaredClasses[i], name(DeclaredClasses[i]),
                    urldistro(DeclaredClasses[i]))]

\* The duplicate check of _build_distro_list, lines 1045-1050: a class whose
\* urldistro is set and was seen on a class before it.
HasDuplicateUrldistro(classes) ==
    \E i, j \in 1..Len(classes) :
        i < j /\ classes[j].urldistro # None
              /\ classes[i].urldistro = classes[j].urldistro

\* mutant: the registry is built without the duplicate check
_build_distro_list_nocheck(objs) ==
    LET HasName(c) == c.name # None
        found == SelectSeq(objs, HasName)
        generic == found[CHOOSE i \in 1..Len(found) : found[i].cls = "GenericDistro"]
    IN  [raised |-> None, ret |-> Remove(found, generic) \o <<generic>>]

\* mutant: GenericDistro stays where the namespace has it
_build_distro_list_inplace(objs) ==
    LET HasName(c) == c.name # None
        found == SelectSeq(objs, HasName)
    IN  IF HasDuplicateUrldistro(found)
        THEN [raised |-> "RuntimeError", ret |-> <<>>]
        ELSE [raised |-> None, ret |-> found]

\* _build_distro_list() over the classes objs: the exception that leaves it
\* (None when it returns) and the list it returns
_build_distro_list(objs) ==
    LET HasName(c) == c.name # None
        found == SelectSeq(objs, HasName)
        generic == found[CHOOSE i \in 1..Len(found) : found[i].cls = "GenericDistro"]
    IN  IF HasDuplicateUrldistro(found)
        THEN [raised |-> "RuntimeError", ret |-> <<>>]
        ELSE [raised |-> None, ret |-> Remove(found, generic) \o <<generic>>]

\* line 1059, as the list of the class names
_allstores ==
    LET built == _build_distro_list(ModuleClasses).ret
    IN  [i \in 1..Len(built) |-> built[i].cls]

-----------------------------------------------------------------------------
(* Candidate order, lines 172-193 of getDistroStore.                       *)

\* mutant: a hint match is ignored
PrioritizeHint_ignore(sts, hint) == sts

\* lines 176-190: the last class whose urldistro equals the hint goes first
PrioritizeHint(sts, hint) ==
    IF hint = None THEN sts
    ELSE LET hits == {i \in 1..Len(sts) : urldistro(sts[i]) = hint}
         IN  IF hits = {} THEN sts
             ELSE LET found_store == sts[CHOOSE i \in hits : \A j \in hits : j <= i]
                  IN  <<found_store>> \o Remove(sts, found_store)

\* key=lambda x: not x.uses_treeinfo
SortKey(cls) == ~uses_treeinfo(cls)

\* list.sort(key=...) is stable: x goes behind every element whose key is not
\* larger than its own.  The key is a boolean, False < True.
RECURSIVE InsertByKey(_, _)
InsertByKey(sorted, x) ==
    IF sorted = <<>> THEN <<x>>
    ELSE IF SortKey(Head(sorted)) /\ ~SortKey(x)
         THEN <<x>> \o sorted
         ELSE <<Head(sorted)>> \o InsertByKey(Tail(sorted), x)

RECURSIVE StableSort(_)
StableSort(s) ==
    IF s = <<>> THEN <<>>
    ELSE InsertByKey(StableSort(SubSeq(s, 1, Len(s) - 1)), s[Len(s)])

\* mutant: descriptor-aware classes first, but each group in reverse
SortByTreeinfo_unstable(sts) ==
    LET Aware(c) == uses_treeinfo(c)
        Unaware(c) == ~uses_treeinfo(c)
        Rev(s) == [i \in 1..Len(s) |-> s[Len(s) + 1 - i]]
    IN  Rev(SelectSeq(sts, Aware)) \o Rev(SelectSeq(sts, Unaware))

\* line 193: stores.sort(key=lambda x: not x.uses_treeinfo)
SortByTreeinfo(sts) == StableSort(sts)

\* Python None where a ConfigParser is expected.  A parsed descriptor is a
\* function from section names (tuples) to functions from option to value.
NoTreeinfo == (<<"None">> :> TRUE)

\* lines 172-193
CandidateOrder(hint, ti) ==
    LET hinted == PrioritizeHint(_allstores, hint)
    IN  IF ti # NoTreeinfo THEN SortByTreeinfo(hinted) ELSE hinted

-----------------------------------------------------------------------------
(* The fetcher (source handle).  An answer says whether the path exists    *)
(* and, for files whose content is read, what the body is.                 *)

Absent == [exists |-> FALSE, body |-> <<>>]
File(b) == [exists |-> TRUE, body |-> b]

\* What the run did, in order.  ev = "access": a fetcher call (op, path, ok);
\* ev = "new": a probe of class cls was instantiated (op = "legacy" or
\* "enum"); ev = "valid": its isValidStore() returned ok.
Access(op, path, ok) ==
    [ev |-> "access", op |-> op, path |-> path, ok |-> ok, cls |-> None]
ProbeNew(via, cls) ==
    [ev |-> "new", op |-> via, path |-> "", ok |-> FALSE, cls |-> cls]
ProbeValid(via, cls, ok) ==
    [ev |-> "valid", op |-> via, path |-> "", ok |-> ok, cls |-> cls]

\* fetcher.hasFile(path)
hasFile(f, path) == f[path].exists

\* The paths a sequence of accesses asked for.
PathsOf(acc) == {acc[i].path : i \in {k \in 1..Len(acc) : acc[k].ev = "access"}}

\* The fetcher's memory after the accesses acc were answered from f.
Remember(known, f, acc) ==
    [p \in DOMAIN known \cup PathsOf(acc) |->
        IF p \in DOMAIN known THEN known[p] ELSE f[p]]

-----------------------------------------------------------------------------
(* configparser: a parsed descriptor maps section -> option -> value.      *)

General == <<"general">>
\* "images-%s" % arch
Images(arch) == <<"images", arch>>

has_section(ti, sect) == sect \in DOMAIN ti
has_option(ti, sect, opt) == sect \in DOMAIN ti /\ opt \in DOMAIN ti[sect]

\* The exception ConfigParser.get(sect, opt) raises, None when it returns.
GetError(ti, sect, opt) ==
    IF ~has_section(ti, sect) THEN "NoSectionError"
    ELSE IF ~has_option(ti, sect, opt) THEN "NoOptionError"
    ELSE None

Get(ti, sect, opt) == ti[sect][opt]

\* mutant: the descriptor is requested, dropped and requested again
_grabTreeinfo_twice(f) ==
    LET got == f[".treeinfo"]
        acc == <<Access("acquireFile", ".treeinfo", got.exists),
                 Access("acquireFile", ".treeinfo", got.exists)>>
    IN  IF got.exists /\ got.body.parses
           /\ GetError(got.body.cfg, General, "family") = None
        THEN [ret |-> got.body.cfg, raised |-> None, acc |-> acc,
              unlinked |-> <<".treeinfo">>]
        ELSE [ret |-> NoTreeinfo, raised |-> None, acc |-> acc,
              unlinked |-> <<>>]

\* mutant: the copy is unlinked after a parse that went through, not in a
\* finally clause
_grabTreeinfo_leak(f) ==
    LET got == f[".treeinfo"]
        acc == <<Access("acquireFile", ".treeinfo", got.exists)>>
        Section(err) ==
            [ret |-> IF err = None THEN got.body.cfg ELSE NoTreeinfo,
             raised |-> IF err = "NoSectionError" THEN None ELSE err,
             acc |-> acc, unlinked |-> <<".treeinfo">>]
    IN  IF ~got.exists
        THEN [ret |-> NoTreeinfo, raised |-> None, acc |-> acc,
              unlinked |-> <<>>]
        ELSE IF ~got.body.parses
        THEN [ret |-> NoTreeinfo, raised |-> "ParsingError", acc |-> acc,
              unlinked |-> <<>>]
        ELSE Section(GetError(got.body.cfg, General, "family"))

\* _grabTreeinfo(fetcher): the descriptor or NoTreeinfo, the exception that
\* leaves it, the fetcher calls it made and the temporary copies it unlinked.
_grabTreeinfo(f) ==
    LET got == f[".treeinfo"]
        acc == <<Access("acquireFile", ".treeinfo", got.exists)>>
    IN  IF ~got.exists
        THEN [ret |-> NoTreeinfo, raised |-> None, acc |-> acc,
              unlinked |-> <<>>]
        ELSE IF ~got.body.parses
        THEN [ret |-> NoTreeinfo, raised |-> "ParsingError", acc |-> acc,
              unlinked |-> <<".treeinfo">>]
        ELSE LET err == GetError(got.body.cfg, General, "family")
             IN  IF err = "NoSectionError"
                 THEN [ret |-> NoTreeinfo, raised |-> None, acc |-> acc,
                       unlinked |-> <<".treeinfo">>]
                 ELSE IF err # None
                 THEN [ret |-> NoTreeinfo, raised |-> err, acc |-> acc,
                       unlinked |-> <<".treeinfo">>]
                 ELSE [ret |-> got.body.cfg, raised |-> None, acc |-> acc,
                       unlinked |-> <<".treeinfo">>]

-----------------------------------------------------------------------------
(* osdict.  A variant id "rhel8.2" is [fam, ver, tag]; OSDB answers three  *)
(* queries: lookup_os(id), latest_fedora_version() and list_os().          *)

Id(fam, ver) == [fam |-> fam, ver |-> ver, tag |-> <<>>]
NoVariant == [fam |-> None, ver |-> <<>>, tag |-> <<>>]

QLookup(id) == <<"lookup_os", id>>
QLatestFedora == <<"latest_fedora_version">>
QListOs == <<"list_os">>

\* Distro._check_osvariant_valid(os_variant)
_check_osvariant_valid(db, id) == db[QLookup(id)]

-----------------------------------------------------------------------------
(* Strings as sequences of one-character strings.                          *)

Digits == <<"0", "1", "2", "3", "4", "5", "6", "7", "8", "9">>

IsDigit(c) == c \in Range(Digits)
DigitValue(c) == IndexOf(Digits, c) - 1

\* str.isdigit()
isdigit(str) == str # <<>> /\ \A i \in 1..Len(str) : IsDigit(str[i])

RECURSIVE NatOf(_)
NatOf(str) ==
    IF str = <<>> THEN 0
    ELSE 10 * NatOf(SubSeq(str, 1, Len(str) - 1)) + DigitValue(str[Len(str)])

\* int(str) succeeds: digits with an optional sign
IsIntLiteral(str) ==
    \/ isdigit(str)
    \/ Len(str) > 1 /\ str[1] \in {"-", "+"} /\ isdigit(Tail(str))

\* int(str), for a str with IsIntLiteral(str)
int(str) ==
    IF str[1] = "-" THEN 0 - NatOf(Tail(str))
    ELSE IF str[1] = "+" THEN NatOf(Tail(str))
    ELSE NatOf(str)

\* str.split(sep): sep is one character
RECURSIVE split(_, _)
split(str, sep) ==
    IF \A i \in 1..Len(str) : str[i] # sep THEN <<str>>
    ELSE LET i == CHOOSE k \in 1..Len(str) :
                     str[k] = sep /\ \A j \in 1..(k - 1) : str[j] # sep
         IN  <<SubSeq(str, 1, i - 1)>> \o split(SubSeq(str, i + 1, Len(str)), sep)

-----------------------------------------------------------------------------
(* Probe instances.  An optional value is <<>> (Python None) or <<v>>.     *)

\* Distro.__init__ and the class attributes an instance starts from
NewStore(cls, fetcherLocation, arch, vmtype) ==
    [cls |-> cls, type |-> vmtype, arch |-> arch, uri |-> fetcherLocation,
     treeinfo |-> NoTreeinfo, os_variant |-> NoVariant,
     _version_number |-> <<>>, _valid_kernel_path |-> <<>>,
     _valid_iso_path |-> <<>>, version_from_content |-> <<>>,
     _url_prefix |-> "", usesClassPaths |-> TRUE,
     _hvm_kernel_paths |-> <<>>, _xen_kernel_paths |-> <<>>,
     _boot_iso_paths |-> <<>>]

\* What a method did: its return value, the exception that left it (None when
\* it returned), the fetcher calls in order, the OSDB queries in order, the
\* instance afterwards and the class-level path lists afterwards.
Result(ret, raised, acc, asked, self, cp) ==
    [ret |-> ret, raised |-> raised, acc |-> acc, asked |-> asked,
     self |-> self, clsPaths |-> cp]

Returns(ret, acc, asked, self, cp) == Result(ret, None, acc, asked, self, cp)
Raises(exc, acc, asked, self, cp) == Result(FALSE, exc, acc, asked, self, cp)

\* re.match(".*<words>.*", text) on a one-line text
MatchAnywhere(text, words) == Contains(text, words)

-----------------------------------------------------------------------------
(* GenericDistro                                                            *)

Generic_xen_paths == << <<"images/xen/vmlinuz", "images/xen/initrd.img">> >>
Generic_hvm_paths ==
    << <<"images/pxeboot/vmlinuz", "images/pxeboot/initrd.img">>,
       <<"ppc/ppc64/vmlinuz", "ppc/ppc64/initrd.img">> >>
Generic_iso_paths ==
    << "images/boot.iso", "boot/boot.iso", "current/images/netboot/mini.iso",
       "install/images/boot.iso" >>

\* Distro._getTreeinfoMedia(mediaName): [raised, value]
_getTreeinfoMedia(self, mediaName) ==
    LET ti == self.treeinfo
        archErr == IF self.type = "xen" THEN None
                   ELSE GetError(ti, General, "arch")
    IN  IF archErr # None THEN [raised |-> archErr, value |-> ""]
        ELSE LET t == IF self.type = "xen" THEN "xen"
                      ELSE Get(ti, General, "arch")
                 err == GetError(ti, Images(t), mediaName)
             IN  IF err # None THEN [raised |-> err, value |-> ""]
                 ELSE [raised |-> None, value |-> Get(ti, Images(t), mediaName)]

\* lines 415-420: [found, acc]; found is <<>> or <<pair>>
RECURSIVE GenericKernelScan(_, _, _)
GenericKernelScan(f, kern_list, valid) ==
    IF kern_list = <<>> \/ valid # <<>> THEN [found |-> valid, acc |-> <<>>]
    ELSE LET kern == Head(kern_list)[1]
             init == Head(kern_list)[2]
             a1 == <<Access("hasFile", kern, hasFile(f, kern))>>
         IN  IF ~hasFile(f, kern)
             THEN LET rest == GenericKernelScan(f, Tail(kern_list), valid)
                  IN  [found |-> rest.found, acc |-> a1 \o rest.acc]
             ELSE LET a2 == a1 \o <<Access("hasFile", init, hasFile(f, init))>>
                  IN  IF hasFile(f, init)
                      THEN [found |-> <<Head(kern_list)>>, acc |-> a2]
                      ELSE LET rest == GenericKernelScan(f, Tail(kern_list), valid)
                           IN  [found |-> rest.found, acc |-> a2 \o rest.acc]

\* lines 422-426
RECURSIVE GenericIsoScan(_, _, _)
GenericIsoScan(f, iso_list, valid) ==
    IF iso_list = <<>> \/ valid # <<>> THEN [found |-> valid, acc |-> <<>>]
    ELSE LET iso == Head(iso_list)
             a1 == <<Access("hasFile", iso, hasFile(f, iso))>>
         IN  IF hasFile(f, iso) THEN [found |-> <<iso>>, acc |-> a1]
             ELSE LET rest == GenericIsoScan(f, Tail(iso_list), valid)
                  IN  [found |-> rest.found, acc |-> a1 \o rest.acc]

\* lines 382-406: the media paths the descriptor names: [raised, kernel, iso]
GenericTreeinfoMedia(self) ==
    LET ti == self.treeinfo
        archErr == GetError(ti, General, "arch")
        \* lines 392-399
        Kernel(kernelSection, k, i) ==
            IF has_section(ti, kernelSection) /\ k.raised = None /\ i.raised = None
            THEN << <<k.value, i.value>> >>
            ELSE self._valid_kernel_path
        \* lines 401-406
        Iso(isoSection) ==
            IF has_section(ti, isoSection)
               /\ GetError(ti, isoSection, "boot.iso") = None
            THEN <<Get(ti, isoSection, "boot.iso")>>
            ELSE self._valid_iso_path
    IN  IF archErr # None
        THEN [raised |-> archErr, kernel |-> self._valid_kernel_path,
              iso |-> self._valid_iso_path]
        ELSE [raised |-> None,
              kernel |-> Kernel(Images(IF self.type = "xen" THEN "xen"
                                       ELSE Get(ti, General, "arch")),
                                _getTreeinfoMedia(self, "kernel"),
                                _getTreeinfoMedia(self, "initrd")),
              iso |-> Iso(Images(Get(ti, General, "arch")))]

\* GenericDistro.isValidStore
Generic_isValidStore(self, f, db, cp) ==
    LET kern_list == IF self.type = "xen" THEN Generic_xen_paths
                     ELSE Generic_hvm_paths
        \* lines 428-430
        Scanned(ks, is) ==
            Returns(ks.found # <<>> \/ is.found # <<>>, ks.acc \o is.acc, <<>>,
                    [self EXCEPT !._valid_kernel_path = ks.found,
                                 !._valid_iso_path = is.found], cp)
        \* lines 408-426
        Media(media) ==
            IF media.raised # None THEN Raises(media.raised, <<>>, <<>>, self, cp)
            ELSE Scanned(GenericKernelScan(f, kern_list, media.kernel),
                         GenericIsoScan(f, Generic_iso_paths, media.iso))
    IN  Media(IF self.treeinfo # NoTreeinfo THEN GenericTreeinfoMedia(self)
              ELSE [raised |-> None, kernel |-> self._valid_kernel_path,
                    iso |-> self._valid_iso_path])

-----------------------------------------------------------------------------
(* RedHatDistro and its subclasses                                          *)

\* line 497: "Using safe default 22"
SafeDefaultFedora == 22
\* line 586: the version assumed for RHEL Server for ARM
ArmServerVersion == 7

FamilyFedora == <<"Fedora">>
FamilyRHEL == <<"Red", "Hat", "Enterprise", "Linux">>
FamilyRHELShort == <<"RHEL">>
FamilyCentOS == <<"CentOS">>
FamilyScientific == <<"Scientific">>
ArmServerName == <<"Red", "Hat", "Enterprise", "Linux", "Server", "for", "ARM">>

VerDevelopment == <<"d", "e", "v", "e", "l", "o", "p", "m", "e", "n", "t">>
VerRawhide == <<"r", "a", "w", "h", "i", "d", "e">>
VerRawhideCap == <<"R", "a", "w", "h", "i", "d", "e">>

\* mutant: the text behind "_" and "-" is not cut off
Fedora_isValidStore_nocut(self, f, db, cp) ==
    LET ti == self.treeinfo IN
    IF ti = NoTreeinfo
    THEN Returns(hasFile(f, "Fedora"),
                 <<Access("hasFile", "Fedora", hasFile(f, "Fedora"))>>,
                 <<>>, self, cp)
    ELSE IF ~MatchAnywhere(Get(ti, General, "family"), FamilyFedora)
    THEN Returns(FALSE, <<>>, <<>>, self, cp)
    ELSE IF GetError(ti, General, "version") # None
    THEN Raises(GetError(ti, General, "version"), <<>>, <<>>, self, cp)
    ELSE IF Get(ti, General, "version") = <<>>
    THEN Returns(FALSE, <<>>, <<>>, self, cp)
    ELSE
    LET ver == Get(ti, General, "version")
        latest_variant == db[QLatestFedora]
        asked == <<QLatestFedora>>
        latest_vernum ==
            IF latest_variant.fam = "fedora" /\ Len(latest_variant.ver) = 1
            THEN latest_variant.ver[1] ELSE SafeDefaultFedora
    IN  IF ver \in {VerDevelopment, VerRawhide, VerRawhideCap}
        THEN Returns(TRUE, <<>>, asked,
                     [self EXCEPT !._version_number = <<latest_vernum>>,
                                  !.os_variant = latest_variant], cp)
        ELSE LET vernum == IF isdigit(ver) THEN NatOf(ver) ELSE latest_vernum
                 variant == IF vernum > latest_vernum THEN latest_variant
                            ELSE Id("fedora", <<vernum>>)
             IN  Returns(TRUE, <<>>, asked,
                         [self EXCEPT !.os_variant = variant,
                                      !._version_number = <<vernum>>], cp)

\* FedoraDistro.isValidStore
Fedora_isValidStore(self, f, db, cp) ==
    LET ti == self.treeinfo IN
    IF ti = NoTreeinfo
    THEN Returns(hasFile(f, "Fedora"),
                 <<Access("hasFile", "Fedora", hasFile(f, "Fedora"))>>,
                 <<>>, self, cp)
    ELSE IF ~MatchAnywhere(Get(ti, General, "family"), FamilyFedora)
    THEN Returns(FALSE, <<>>, <<>>, self, cp)
    ELSE IF GetError(ti, General, "version") # None
    THEN Raises(GetError(ti, General, "version"), <<>>, <<>>, self, cp)
    ELSE IF Get(ti, General, "version") = <<>>
    THEN Returns(FALSE, <<>>, <<>>, self, cp)
    ELSE
    LET ver == Get(ti, General, "version")
        latest_variant == db[QLatestFedora]
        asked == <<QLatestFedora>>
        latest_vernum ==
            IF latest_variant.fam = "fedora" /\ Len(latest_variant.ver) = 1
            THEN latest_variant.ver[1] ELSE SafeDefaultFedora
    IN  IF ver \in {VerDevelopment, VerRawhide, VerRawhideCap}
        THEN Returns(TRUE, <<>>, asked,
                     [self EXCEPT !._version_number = <<latest_vernum>>,
                                  !.os_variant = latest_variant], cp)
        ELSE LET ver2 == IF "_" \in Range(ver) THEN split(ver, "_")[1] ELSE ver
                 vertext == split(ver2, "-")[1]
                 vernum == IF isdigit(vertext) THEN NatOf(vertext)
                           ELSE latest_vernum
                 variant == IF vernum > latest_vernum THEN latest_variant
                            ELSE Id("fedora", <<vernum>>)
             IN  Returns(TRUE, <<>>, asked,
                         [self EXCEPT !.os_variant = variant,
                                      !._version_number = <<vernum>>], cp)

\* RHELDistro._parseTreeinfoVersion._safeint
_safeint(c) == IF IsIntLiteral(c) THEN int(c) ELSE 0

\* RHELDistro._parseTreeinfoVersion(verstr): <<version, update>>
_parseTreeinfoVersion(verstr) ==
    LET version == _safeint(<<verstr[1]>>)
        updinfo == split(verstr, ".")
        update == IF Len(updinfo) > 1 THEN _safeint(updinfo[2])
                  ELSE IF Len(verstr) > 1 THEN _safeint(<<verstr[2]>>)
                  ELSE 0
    IN  <<version, update>>

\* the while loop of _setRHELVariant, lines 600-607: [ret, asked]
RECURSIVE RHELUpdateLoop(_, _, _)
RHELUpdateLoop(db, version, update) ==
    IF update < 0 THEN [ret |-> NoVariant, asked |-> <<>>]
    ELSE LET tryvar == Id("rhel", <<version, update>>)
         IN  IF ~_check_osvariant_valid(db, tryvar)
             THEN LET rest == RHELUpdateLoop(db, version, update - 1)
                  IN  [ret |-> rest.ret, asked |-> <<QLookup(tryvar)>> \o rest.asked]
             ELSE [ret |-> tryvar, asked |-> <<QLookup(tryvar)>>]

\* mutant: the plain rhel<major> id is never tried
_setRHELVariant_nobase(self, db, version, update) ==
    LET loop == RHELUpdateLoop(db, version, IF update < 0 THEN 0 ELSE update)
    IN  [self |-> IF loop.ret # NoVariant
                  THEN [self EXCEPT !.os_variant = loop.ret]
                  ELSE self,
         asked |-> loop.asked]

\* RHELDistro._setRHELVariant(version, update): [self, asked]
_setRHELVariant(self, db, version, update) ==
    LET base == Id("rhel", <<version>>)
        loop == RHELUpdateLoop(db, version, IF update < 0 THEN 0 ELSE update)
        plain == loop.ret = NoVariant
        ret == IF ~plain THEN loop.ret
               ELSE IF _check_osvariant_valid(db, base) THEN base
               ELSE NoVariant
        asked == loop.asked \o (IF plain THEN <<QLookup(base)>> ELSE <<>>)
    IN  [self |-> IF ret # NoVariant THEN [self EXCEPT !.os_variant = ret]
                  ELSE self,
         asked |-> asked]

\* RHELDistro._variantFromVersion(): [raised, self, asked]
_variantFromVersion(self, db) ==
    LET ti == self.treeinfo
        err == GetError(ti, General, "version")
        Set(set) == [raised |-> None, self |-> set.self, asked |-> set.asked]
        \* lines 591-592
        Numbered(parsed) ==
            Set(_setRHELVariant([self EXCEPT !._version_number = <<parsed[1]>>],
                                db, parsed[1], parsed[2]))
    IN  IF err # None THEN [raised |-> err, self |-> self, asked |-> <<>>]
        ELSE LET ver == Get(ti, General, "version")
                 isArm == has_option(ti, General, "name")
                          /\ StartsWith(Get(ti, General, "name"), ArmServerName)
             IN  IF ver = <<>>
                 THEN [raised |-> None, self |-> self, asked |-> <<>>]
                 ELSE Numbered(IF isArm THEN <<ArmServerVersion, 0>>
                               ELSE _parseTreeinfoVersion(ver))

\* lines 533-543, shared by RHELDistro and SLDistro: the descriptor branch
RHELTreeinfoBranch(self, db, cp, family1, family2) ==
    LET fam == Get(self.treeinfo, General, "family")
        ret == MatchAnywhere(fam, family1) \/ MatchAnywhere(fam, family2)
        Varianted(v) ==
            IF v.raised # None
            THEN Raises(v.raised, <<>>, v.asked, v.self, cp)
            ELSE Returns(TRUE, <<>>, v.asked, v.self, cp)
    IN  IF ~ret THEN Returns(FALSE, <<>>, <<>>, self, cp)
        ELSE Varianted(_variantFromVersion(self, db))

\* RHELDistro.isValidStore
RHEL_isValidStore(self, f, db, cp) ==
    IF self.treeinfo # NoTreeinfo
    THEN RHELTreeinfoBranch(self, db, cp, FamilyRHEL, FamilyRHELShort)
    ELSE LET server == Access("hasFile", "Server", hasFile(f, "Server"))
             client == Access("hasFile", "Client", hasFile(f, "Client"))
             redhat == Access("hasFile", "RedHat", hasFile(f, "RedHat"))
             rhel5 == [self EXCEPT !.os_variant = Id("rhel", <<5>>)]
         IN  IF hasFile(f, "Server")
             THEN Returns(TRUE, <<server>>, <<>>, rhel5, cp)
             ELSE IF hasFile(f, "Client")
             THEN Returns(TRUE, <<server, client>>, <<>>, rhel5, cp)
             ELSE Returns(hasFile(f, "RedHat"), <<server, client, redhat>>,
                          <<>>, self, cp)

\* str.replace("rhel", "centos") on a variant id
ReplaceRhelByCentos(id) ==
    IF id.fam = "rhel" THEN [id EXCEPT !.fam = "centos"] ELSE id

\* mutant: the CentOS probe also accepts a Red Hat Enterprise Linux family
CentOS_isValidStore_anyrhel(self, f, db, cp) ==
    LET Varianted(v) ==
            IF v.raised # None
            THEN Raises(v.raised, <<>>, v.asked, v.self, cp)
            ELSE Returns(TRUE, <<>>, v.asked, v.self, cp)
        Family(fam) ==
            IF ~(MatchAnywhere(fam, FamilyCentOS) \/ MatchAnywhere(fam, FamilyRHEL))
            THEN Returns(FALSE, <<>>, <<>>, self, cp)
            ELSE Varianted(_variantFromVersion(self, db))
    IN  IF self.treeinfo = NoTreeinfo
        THEN Returns(hasFile(f, "CentOS"),
                     <<Access("hasFile", "CentOS", hasFile(f, "CentOS"))>>,
                     <<>>, self, cp)
        ELSE Family(Get(self.treeinfo, General, "family"))

\* mutant: the centos id is taken without asking the catalog for it
CentOS_isValidStore_unchecked(self, f, db, cp) ==
    LET Varianted(v) ==
            IF v.raised # None
            THEN Raises(v.raised, <<>>, v.asked, v.self, cp)
            ELSE Returns(TRUE, <<>>, v.asked,
                         [v.self EXCEPT !.os_variant =
                              ReplaceRhelByCentos(v.self.os_variant)], cp)
    IN  IF self.treeinfo = NoTreeinfo
        THEN Returns(hasFile(f, "CentOS"),
                     <<Access("hasFile", "CentOS", hasFile(f, "CentOS"))>>,
                     <<>>, self, cp)
        ELSE IF ~MatchAnywhere(Get(self.treeinfo, General, "family"), FamilyCentOS)
        THEN Returns(FALSE, <<>>, <<>>, self, cp)
        ELSE Varianted(_variantFromVersion(self, db))

\* CentOSDistro.isValidStore
CentOS_isValidStore(self, f, db, cp) ==
    LET \* lines 632-634
        Replaced(v, new_variant) ==
            Returns(TRUE, <<>>, v.asked \o <<QLookup(new_variant)>>,
                    IF _check_osvariant_valid(db, new_variant)
                    THEN [v.self EXCEPT !.os_variant = new_variant]
                    ELSE v.self, cp)
        \* lines 630-631
        Varianted(v) ==
            IF v.raised # None
            THEN Raises(v.raised, <<>>, v.asked, v.self, cp)
            ELSE IF v.self.os_variant = NoVariant
            THEN Returns(TRUE, <<>>, v.asked, v.self, cp)
            ELSE Replaced(v, ReplaceRhelByCentos(v.self.os_variant))
    IN  IF self.treeinfo = NoTreeinfo
        THEN Returns(hasFile(f, "CentOS"),
                     <<Access("hasFile", "CentOS", hasFile(f, "CentOS"))>>,
                     <<>>, self, cp)
        ELSE IF ~MatchAnywhere(Get(self.treeinfo, General, "family"), FamilyCentOS)
        THEN Returns(FALSE, <<>>, <<>>, self, cp)
        ELSE Varianted(_variantFromVersion(self, db))

\* SLDistro.isValidStore
SL_isValidStore(self, f, db, cp) ==
    IF self.treeinfo # NoTreeinfo
    THEN RHELTreeinfoBranch(self, db, cp, FamilyScientific, FamilyScientific)
    ELSE Returns(hasFile(f, "SL"),
                 <<Access("hasFile", "SL", hasFile(f, "SL"))>>, <<>>, self, cp)

-----------------------------------------------------------------------------
(* Probes that read marker files.  The body of such a file is a sequence   *)
(* of lines, a line a sequence of words; a location is the sequence of its *)
(* segments between "/" ("/mnt/iso" is <<"", "mnt", "iso">>).             *)

\* Distro._fetchAndMatchRegex(filename, regex): LineMatches is the regex
FetchAndMatch(f, filename, LineMatches(_)) ==
    [ret |-> f[filename].exists
             /\ \E i \in 1..Len(f[filename].body) : LineMatches(f[filename].body[i]),
     acc |-> <<Access("acquireFileContent", filename, f[filename].exists)>>]

\* "/%s/" % codename in uri
HasSegment(uri, codename) ==
    \E i \in 2..(Len(uri) - 1) : uri[i] = codename

\* the architecture a segment "installer-<arch>" names, <<>> if it is none
InstallerArch(seg) ==
    CASE seg = "installer-amd64" -> <<"amd64">>
      [] seg = "installer-i386"  -> <<"i386">>
      [] seg = "installer-s390x" -> <<"s390x">>
      [] OTHER -> <<>>

\* the architecture names that occur inside a segment
ArchsIn(seg) ==
    CASE seg \in {"installer-amd64", "amd64", "debian-amd64.iso"} -> {"amd64"}
      [] seg \in {"installer-i386", "i386"} -> {"i386"}
      [] seg = "x86_64" -> {"x86_64"}
      [] seg = "arm64" -> {"arm64"}
      [] OTHER -> {}

\* DebianDistro._find_treearch
_find_treearch(uri) ==
    LET segs == IF uri # <<>> /\ uri[Len(uri)] = ""
                THEN SubSeq(uri, 1, Len(uri) - 1) ELSE uri
        last == IF Len(segs) >= 2 THEN segs[Len(segs)] ELSE ""
        before == IF Len(segs) >= 3 THEN segs[Len(segs) - 1] ELSE ""
        named == UNION {ArchsIn(uri[i]) : i \in 1..Len(uri)}
    IN  IF InstallerArch(last) # <<>> THEN InstallerArch(last)[1]
        ELSE IF before = "daily-images" /\ last # "" THEN last
        ELSE IF "i386" \in named THEN "i386"
        ELSE IF "amd64" \in named THEN "amd64"
        ELSE IF "x86_64" \in named THEN "amd64"
        ELSE IF "arm64" \in named THEN "arm64"
        ELSE "i386"

\* self.name.lower() + "-installer"
_installer_dirname(self) ==
    IF self.cls = "UbuntuDistro" THEN "ubuntu-installer" ELSE "debian-installer"

\* self.name.lower()
LowerName(self) == IF self.cls = "UbuntuDistro" THEN "ubuntu" ELSE "debian"

\* "kernel.%s" % self.name.lower() and "initrd.%s" % self.name.lower()
KernelDotName(self) ==
    IF self.cls = "UbuntuDistro" THEN "kernel.ubuntu" ELSE "kernel.debian"
InitrdDotName(self) ==
    IF self.cls = "UbuntuDistro" THEN "initrd.ubuntu" ELSE "initrd.debian"

\* DebianDistro._set_media_paths
_set_media_paths(self) ==
    LET arch == _find_treearch(self.uri)
        s390x == arch = "s390x"
        hvmroot == IF s390x THEN <<self._url_prefix, "generic">>
                   ELSE <<self._url_prefix, "netboot", _installer_dirname(self), arch>>
        kernel_basename == IF s390x THEN <<KernelDotName(self)>>
                           ELSE IF arch = "ppc64el" THEN <<"vmlinux">>
                           ELSE <<"linux">>
        initrd_basename == IF s390x THEN <<InitrdDotName(self)>>
                           ELSE <<"initrd.gz">>
        xenroot == <<self._url_prefix, "netboot", "xen">>
    IN  [self EXCEPT
            !.usesClassPaths = FALSE,
            !._boot_iso_paths = << <<self._url_prefix, "netboot", "mini.iso">> >>,
            !._hvm_kernel_paths =
                << <<hvmroot \o kernel_basename, hvmroot \o initrd_basename>> >>,
            !._xen_kernel_paths =
                << <<xenroot \o <<"vmlinuz">>, xenroot \o <<"initrd.gz">>>> >>]

\* DebianDistro._detect_debian_osdict_from_url: [raised, value, asked]
_detect_debian_osdict_from_url(self, db) ==
    LET root == LowerName(self)
        IsOurs(o) == o.name.fam = root
        oses == SelectSeq(db[QListOs], IsOurs)
        Codename(o) == IF o.codename # <<>> THEN <<o.codename[1]>>
                       ELSE IF Len(o.label) < 2 THEN <<>>
                       ELSE <<o.label[2]>>
        hits == {i \in 1..Len(oses) :
                    Codename(oses[i]) # <<>>
                    /\ HasSegment(self.uri, Codename(oses[i])[1])}
    IN  IF self._url_prefix = "daily"
        THEN IF oses = <<>>
             THEN [raised |-> "IndexError", value |-> self.os_variant,
                   asked |-> <<QListOs>>]
             ELSE [raised |-> None, value |-> oses[1].name, asked |-> <<QListOs>>]
        ELSE IF hits # {}
        THEN [raised |-> None, asked |-> <<QListOs>>,
              value |-> oses[CHOOSE i \in hits : \A j \in hits : i <= j].name]
        ELSE [raised |-> None, value |-> self.os_variant, asked |-> <<QListOs>>]

\* DebianDistro._check_manifest(filename): [ret, acc]
_check_manifest(self, f, filename) ==
    LET has == <<Access("hasFile", filename, hasFile(f, filename))>>
        Generic390(line) == Contains(line, <<"generic", KernelDotName(self)>>)
        Installer(line) == Contains(line, <<_installer_dirname(self)>>)
        m == IF self.arch = "s390x" THEN FetchAndMatch(f, filename, Generic390)
             ELSE FetchAndMatch(f, filename, Installer)
    IN  IF ~hasFile(f, filename) THEN [ret |-> FALSE, acc |-> has]
        ELSE [ret |-> m.ret, acc |-> has \o m.acc]

\* DebianDistro._check_info(filename): [ret, acc]
_check_info(self, f, filename) ==
    LET has == <<Access("hasFile", filename, hasFile(f, filename))>>
        OurName(line) == line # <<>> /\ line[1] = name(self.cls)
        m == FetchAndMatch(f, filename, OurName)
    IN  IF ~hasFile(f, filename) THEN [ret |-> FALSE, acc |-> has]
        ELSE [ret |-> m.ret, acc |-> has \o m.acc]

\* _is_regular_tree / _is_daily_tree: the manifest, then the prefix
ManifestTree(self, f, db, cp, filename, prefix) ==
    LET Detected(chk, pathed, det) ==
            IF det.raised # None
            THEN Raises(det.raised, chk.acc, det.asked, pathed, cp)
            ELSE Returns(TRUE, chk.acc, det.asked,
                         [pathed EXCEPT !.os_variant = det.value], cp)
        Pathed(chk, pathed) ==
            Detected(chk, pathed, _detect_debian_osdict_from_url(pathed, db))
        Checked(chk) ==
            IF ~chk.ret THEN Returns(FALSE, chk.acc, <<>>, self, cp)
            ELSE Pathed(chk, _set_media_paths([self EXCEPT !._url_prefix = prefix]))
    IN  Checked(_check_manifest(self, f, filename))

_is_regular_tree(self, f, db, cp) ==
    ManifestTree(self, f, db, cp, "current/images/MANIFEST", "current/images")

_is_daily_tree(self, f, db, cp) ==
    ManifestTree(self, f, db, cp, "daily/MANIFEST", "daily")

\* DebianDistro._is_install_cd, lines 880-895
Debian_install_pair(arch) ==
    CASE arch = "x86_64"  -> << <<"install.amd", "vmlinuz">>, <<"install.amd", "initrd.gz">> >>
      [] arch = "i686"    -> << <<"install.386", "vmlinuz">>, <<"install.386", "initrd.gz">> >>
      [] arch = "aarch64" -> << <<"install.a64", "vmlinuz">>, <<"install.a64", "initrd.gz">> >>
      [] arch = "ppc64le" -> << <<"install", "vmlinux">>, <<"install", "initrd.gz">> >>
      [] arch = "s390x"   -> << <<"boot", "linux_vm">>, <<"boot", "root.bin">> >>
      [] OTHER            -> << <<"install", "vmlinuz">>, <<"install", "initrd.gz">> >>

\* UbuntuDistro._is_install_cd, lines 961-964
Ubuntu_install_pair(arch) ==
    IF arch # "s390x"
    THEN << <<"install", "vmlinuz">>, <<"install", "initrd.gz">> >>
    ELSE << <<"boot", "kernel.ubuntu">>, <<"boot", "initrd.ubuntu">> >>

\* `self._hvm_kernel_paths += [pair]; self._xen_kernel_paths += [pair]`: a
\* list the instance does not own is the class's list, extended in place.
AppendKernelPair(self, cp, pair) ==
    IF self.usesClassPaths
    THEN [self |-> self,
          clsPaths |-> [cp EXCEPT !.hvm = Append(@, pair), !.xen = Append(@, pair)]]
    ELSE [self |-> [self EXCEPT !._hvm_kernel_paths = Append(@, pair),
                                !._xen_kernel_paths = Append(@, pair)],
          clsPaths |-> cp]

\* mutant: the install CD check fails once the class's list holds the pair
_is_install_cd_once(self, f, db, cp) ==
    LET chk == _check_info(self, f, ".disk/info")
        pair == IF self.cls = "UbuntuDistro" THEN Ubuntu_install_pair(self.arch)
                ELSE Debian_install_pair(self.arch)
        app == AppendKernelPair(self, cp, pair)
    IN  IF ~chk.ret \/ pair \in Range(cp.hvm)
        THEN Returns(FALSE, chk.acc, <<>>, self, cp)
        ELSE Returns(TRUE, chk.acc, <<>>, app.self, app.clsPaths)

\* _is_install_cd of DebianDistro and of UbuntuDistro
_is_install_cd(self, f, db, cp) ==
    LET chk == _check_info(self, f, ".disk/info")
        pair == IF self.cls = "UbuntuDistro" THEN Ubuntu_install_pair(self.arch)
                ELSE Debian_install_pair(self.arch)
        app == AppendKernelPair(self, cp, pair)
    IN  IF ~chk.ret THEN Returns(FALSE, chk.acc, <<>>, self, cp)
        ELSE Returns(TRUE, chk.acc, <<>>, app.self, app.clsPaths)

\* mutant: the daily manifest is looked for before the regular one
Debian_isValidStore_dailyfirst(self, f, db, cp) ==
    LET After(first, second) ==
            [second EXCEPT !.acc = first.acc \o @, !.asked = first.asked \o @]
        Settled(r) == r.raised # None \/ r.ret
        OrRegular(r) ==
            IF Settled(r) THEN r
            ELSE After(r, _is_regular_tree(r.self, f, db, r.clsPaths))
        OrInstallCd(r) ==
            IF Settled(r) THEN r
            ELSE After(r, _is_install_cd(r.self, f, db, r.clsPaths))
    IN  OrInstallCd(OrRegular(_is_daily_tree(self, f, db, cp)))

\* DebianDistro.isValidStore (UbuntuDistro inherits it): any() over the
\* three checks, each one run only when the ones before returned False
Debian_isValidStore(self, f, db, cp) ==
    LET After(first, second) ==
            [second EXCEPT !.acc = first.acc \o @, !.asked = first.asked \o @]
        Settled(r) == r.raised # None \/ r.ret
        OrDaily(r) ==
            IF Settled(r) THEN r
            ELSE After(r, _is_daily_tree(r.self, f, db, r.clsPaths))
        OrInstallCd(r) ==
            IF Settled(r) THEN r
            ELSE After(r, _is_install_cd(r.self, f, db, r.clsPaths))
    IN  OrInstallCd(OrDaily(_is_regular_tree(self, f, db, cp)))

\* MandrivaDistro.isValidStore
Mandriva_isValidStore(self, f, db, cp) ==
    LET has == <<Access("hasFile", "VERSION", hasFile(f, "VERSION"))>>
        Mandriva(line) == Contains(line, <<"Mandriva">>)
        Mageia(line) == Contains(line, <<"Mageia">>)
        m1 == FetchAndMatch(f, "VERSION", Mandriva)
        m2 == FetchAndMatch(f, "VERSION", Mageia)
    IN  IF self.type # None /\ self.type # "hvm"
        THEN Returns(FALSE, <<>>, <<>>, self, cp)
        ELSE IF ~hasFile(f, "VERSION") THEN Returns(FALSE, has, <<>>, self, cp)
        ELSE IF m1.ret THEN Returns(TRUE, has \o m1.acc, <<>>, self, cp)
        ELSE Returns(m2.ret, has \o m1.acc \o m2.acc, <<>>, self, cp)

\* mutant: .disk/info is fetched without asking whether it is there
ALTLinux_isValidStore_nohas(self, f, db, cp) ==
    LET Alt(line) == \E i \in 1..(Len(line) - 1) : line[i] = "ALT"
        m == FetchAndMatch(f, ".disk/info", Alt)
    IN  IF self.type # None /\ self.type # "hvm"
        THEN Returns(FALSE, <<>>, <<>>, self, cp)
        ELSE Returns(m.ret, m.acc, <<>>, self, cp)

\* ALTLinuxDistro.isValidStore
ALTLinux_isValidStore(self, f, db, cp) ==
    LET has == <<Access("hasFile", ".disk/info", hasFile(f, ".disk/info"))>>
        Alt(line) == \E i \in 1..(Len(line) - 1) : line[i] = "ALT"
        m == FetchAndMatch(f, ".disk/info", Alt)
    IN  IF self.type # None /\ self.type # "hvm"
        THEN Returns(FALSE, <<>>, <<>>, self, cp)
        ELSE IF ~hasFile(f, ".disk/info") THEN Returns(FALSE, has, <<>>, self, cp)
        ELSE Returns(m.ret, has \o m.acc, <<>>, self, cp)

-----------------------------------------------------------------------------
(* The SUSE content file.  Its text is a sequence of lines, each line a    *)
(* sequence of one-character strings.                                      *)

TxtLABEL == <<"L", "A", "B", "E", "L", " ">>
TxtDISTRO == <<"D", "I", "S", "T", "R", "O", " ">>
TxtVERSION == <<"V", "E", "R", "S", "I", "O", "N", " ">>
TxtSUMMARY == <<"S", "U", "M", "M", "A", "R", "Y", " ">>
TxtBASEARCHS == <<"B", "A", "S", "E", "A", "R", "C", "H", "S", " ">>
TxtDEFAULTBASE == <<"D", "E", "F", "A", "U", "L", "T", "B", "A", "S", "E", " ">>
TxtREPOID == <<"R", "E", "P", "O", "I", "D", " ">>
Txt_x86_64 == <<"x", "8", "6", "_", "6", "4">>
Txt_i586 == <<"i", "5", "8", "6">>
Txt_s390x == <<"s", "3", "9", "0", "x">>
Txt_i586_x86_64 == <<"i", "5", "8", "6", "-", "x", "8", "6", "_", "6", "4">>
\* the fixed part of ".*SUSE Linux Enterprise Server*": `r*` may be empty
TxtSLES == <<"S", "U", "S", "E", " ", "L", "i", "n", "u", "x", " ", "E", "n", "t", "e", "r", "p", "r", "i", "s", "e", " ", "S", "e", "r", "v", "e">>
\* ".*SUSE SLES*"
TxtSUSE_SLE == <<"S", "U", "S", "E", " ", "S", "L", "E">>
\* ".*SUSE Linux Enterprise Desktop*"
TxtSLED == <<"S", "U", "S", "E", " ", "L", "i", "n", "u", "x", " ", "E", "n", "t", "e", "r", "p", "r", "i", "s", "e", " ", "D", "e", "s", "k", "t", "o">>
TxtOpenSUSE == <<"o", "p", "e", "n", "S", "U", "S", "E">>

\* str.split(sep, 1)
split1(str, sep) ==
    IF \A i \in 1..Len(str) : str[i] # sep THEN <<str>>
    ELSE LET i == CHOOSE k \in 1..Len(str) :
                     str[k] = sep /\ \A j \in 1..(k - 1) : str[j] # sep
         IN  <<SubSeq(str, 1, i - 1), SubSeq(str, i + 1, Len(str))>>

\* str.rsplit(sep, 1)
rsplit1(str, sep) ==
    IF \A i \in 1..Len(str) : str[i] # sep THEN <<str>>
    ELSE LET i == CHOOSE k \in 1..Len(str) :
                     str[k] = sep /\ \A j \in (k + 1)..Len(str) : str[j] # sep
         IN  <<SubSeq(str, 1, i - 1), SubSeq(str, i + 1, Len(str))>>

\* str.strip()
RECURSIVE strip(_)
strip(str) ==
    IF str = <<>> THEN str
    ELSE IF str[1] = " " THEN strip(Tail(str))
    ELSE IF str[Len(str)] = " " THEN strip(SubSeq(str, 1, Len(str) - 1))
    ELSE str

\* cbuf.find(text) != -1, for a text without a line break
FoundIn(cbuf, text) == \E i \in 1..Len(cbuf) : Contains(cbuf[i], text)

\* mutant: a field keeps the value of the first line that gave it one
ParseLine_keep(p, line) ==
    LET Keep(field, value) ==
            IF p[field] # <<>> THEN p ELSE [p EXCEPT ![field] = value]
    IN  IF StartsWith(line, TxtLABEL)
        THEN Keep("distribution", split1(line, " "))
        ELSE IF StartsWith(line, TxtDISTRO)
        THEN Keep("distro_distro", rsplit1(line, ","))
        ELSE IF StartsWith(line, TxtVERSION)
        THEN Keep("distro_version",
                  <<split1(line, " ")[1], split1(split1(line, " ")[2], "-")[1]>>)
        ELSE IF StartsWith(line, TxtSUMMARY)
        THEN Keep("distro_summary", split1(line, " "))
        ELSE IF StartsWith(line, TxtBASEARCHS) \/ StartsWith(line, TxtDEFAULTBASE)
        THEN Keep("distro_arch", split1(line, " "))
        ELSE IF StartsWith(line, TxtREPOID)
        THEN Keep("distro_arch", rsplit1(line, "/"))
        ELSE p

\* One pass of the loop body, lines 55-85, over the fields parsed so far.
ParseLine(p, line) ==
    IF StartsWith(line, TxtLABEL)
    THEN [p EXCEPT !.distribution = split1(line, " ")]
    ELSE IF StartsWith(line, TxtDISTRO)
    THEN [p EXCEPT !.distro_distro = rsplit1(line, ",")]
    ELSE IF StartsWith(line, TxtVERSION)
    THEN LET distro_version == split1(line, " ")
             d_version == split1(distro_version[2], "-")
         IN  [p EXCEPT !.distro_version =
                 IF Len(d_version) > 1 THEN <<distro_version[1], d_version[1]>>
                 ELSE distro_version]
    ELSE IF StartsWith(line, TxtSUMMARY)
    THEN [p EXCEPT !.distro_summary = split1(line, " ")]
    ELSE IF StartsWith(line, TxtBASEARCHS) \/ StartsWith(line, TxtDEFAULTBASE)
    THEN [p EXCEPT !.distro_arch = split1(line, " ")]
    ELSE IF StartsWith(line, TxtREPOID)
    THEN [p EXCEPT !.distro_arch = rsplit1(line, "/")]
    ELSE p

\* mutant: the loop also ends on an identity from SUMMARY or DISTRO
ScanDone_identity(p) ==
    /\ p.distribution # <<>> \/ p.distro_summary # <<>> \/ p.distro_distro # <<>>
    /\ p.distro_version # <<>>
    /\ p.distro_arch # <<>>

\* lines 86-87: `if distribution and distro_version and distro_arch: break`
ScanDone(p) ==
    p.distribution # <<>> /\ p.distro_version # <<>> /\ p.distro_arch # <<>>

\* The for loop of lines 54-87 with its break.
RECURSIVE ParseLines(_, _)
ParseLines(p, lines) ==
    IF lines = <<>> THEN p
    ELSE LET q == ParseLine(p, Head(lines))
         IN  IF ScanDone(q) THEN q
             ELSE ParseLines(q, Tail(lines))

\* _parseSUSEContent(cbuf): [raised, distribution, distro_version, tree_arch];
\* an unset value is <<>>
_parseSUSEContent(cbuf) ==
    LET p == ParseLines(NoFields, IF cbuf = <<>> THEN <<>> ELSE Tail(cbuf))
        distribution == IF p.distribution # <<>> THEN p.distribution
                        ELSE IF p.distro_summary # <<>> THEN p.distro_summary
                        ELSE p.distro_distro
        found_arch == IF FoundIn(cbuf, Txt_x86_64) THEN Txt_x86_64
                      ELSE IF FoundIn(cbuf, Txt_i586) THEN Txt_i586
                      ELSE IF FoundIn(cbuf, Txt_s390x) THEN Txt_s390x
                      ELSE <<>>
    IN  IF p.distro_arch # <<>> /\ Len(p.distro_arch) < 2
        THEN [raised |-> "IndexError", distribution |-> distribution,
              distro_version |-> p.distro_version, tree_arch |-> <<>>]
        ELSE [raised |-> None, distribution |-> distribution,
              distro_version |-> p.distro_version,
              tree_arch |->
                 IF p.distro_arch = <<>> THEN found_arch
                 ELSE IF Contains(strip(p.distro_arch[2]), Txt_i586_x86_64)
                 THEN Txt_x86_64
                 ELSE strip(p.distro_arch[2])]

-----------------------------------------------------------------------------
(* SuseDistro and its subclasses                                            *)

\* an architecture given as text, as the string the classes compare with
ArchOfText(txt) ==
    CASE txt = Txt_x86_64 -> "x86_64"
      [] txt = Txt_s390x  -> "s390x"
      [] StartsWith(txt, Txt_i586) -> "i586"
      [] OTHER -> "other"

\* re.match(r'i[4-9]86', arch)
IsI86(arch) == arch \in {"i486", "i586", "i686", "i786", "i886", "i986"}

\* SuseDistro.__init__, after Distro.__init__
SuseInit(self) ==
    LET arch == IF IsI86(self.arch) THEN "i386" ELSE self.arch
        oldkern == IF arch = "x86_64" THEN "linux64" ELSE "linux"
        oldinit == IF arch = "x86_64" THEN "initrd64" ELSE "initrd"
    IN  [self EXCEPT
            !.arch = arch,
            !.usesClassPaths = FALSE,
            !._hvm_kernel_paths =
                IF arch = "s390x"
                THEN << << <<"boot", arch, "linux">>, <<"boot", arch, "initrd">> >> >>
                ELSE << << <<"boot", arch, "loader", "linux">>,
                           <<"boot", arch, "loader", "initrd">> >>,
                        << <<"boot", "loader", oldkern>>,
                           <<"boot", "loader", oldinit>> >>,
                        << <<"boot", arch, "linux">>, <<"boot", arch, "initrd">> >> >>,
            !._xen_kernel_paths =
                IF arch = "s390x" THEN <<>>
                ELSE << << <<"boot", arch, "vmlinuz-xen">>,
                           <<"boot", arch, "initrd-xen">> >> >>]

\* MandrivaDistro.__init__, after Distro.__init__
MandrivaInit(self) ==
    [self EXCEPT
        !.usesClassPaths = FALSE,
        !._hvm_kernel_paths =
            << << <<"isolinux", self.arch, "vmlinuz">>,
                  <<"isolinux", self.arch, "all.rdz">> >>,
               << <<"isolinux", "alt0", "vmlinuz">>,
                  <<"isolinux", "alt0", "all.rdz">> >> >>]

\* sclass(fetcher, arch, vmtype)
Instantiate(cls, fetcherLocation, arch, vmtype) ==
    LET base == NewStore(cls, fetcherLocation, arch, vmtype)
    IN  IF cls \in {"SuseDistro", "SLESDistro", "SLEDDistro", "OpensuseDistro"}
        THEN SuseInit(base)
        ELSE IF cls = "MandrivaDistro" THEN MandrivaInit(base)
        ELSE base

\* the dotted numbers of a version text, <<>> when a part is not a number
VersionNumbers(txt) ==
    LET parts == split(txt, ".")
    IN  IF \A i \in 1..Len(parts) : isdigit(parts[i])
        THEN [i \in 1..Len(parts) |-> NatOf(parts[i])]
        ELSE <<>>

\* mutant: the service pack is left out of a SLES or SLED id
Suse_variantFromVersion_nosp(self) ==
    LET distro_version == strip(self.version_from_content[2])
        version == strip(split1(distro_version, ".")[1])
        key == urldistro(self.cls)
        variant ==
            IF int(version) >= 10
            THEN IF key \in {"sles", "sled"}
                 THEN Id(key, <<int(version)>>)
                 ELSE IF Len(version) = 8
                 THEN [fam |-> key, ver |-> <<>>, tag |-> <<"tumbleweed">>]
                 ELSE Id(key, VersionNumbers(distro_version))
            ELSE Id(key, <<9>>)
    IN  IF ~IsIntLiteral(version)
        THEN [raised |-> "ValueError",
              self |-> [self EXCEPT !.os_variant = Id(key, <<>>)]]
        ELSE [raised |-> None, self |-> [self EXCEPT !.os_variant = variant]]

\* SuseDistro._variantFromVersion: [raised, self]
Suse_variantFromVersion(self) ==
    LET distro_version == strip(self.version_from_content[2])
        version == strip(split1(distro_version, ".")[1])
        key == urldistro(self.cls)
        parts == split1(distro_version, ".")
        variant ==
            IF int(version) >= 10
            THEN IF key \in {"sles", "sled"}
                 THEN [fam |-> key, ver |-> <<int(version)>>,
                       tag |-> IF Len(parts) = 2 THEN <<"sp", strip(parts[2])>>
                               ELSE <<>>]
                 ELSE IF Len(version) = 8
                 THEN [fam |-> key, ver |-> <<>>, tag |-> <<"tumbleweed">>]
                 ELSE IF VersionNumbers(distro_version) # <<>>
                 THEN Id(key, VersionNumbers(distro_version))
                 ELSE [fam |-> key, ver |-> <<>>, tag |-> <<"text", distro_version>>]
            ELSE Id(key, <<9>>)
    IN  IF ~IsIntLiteral(version)
        THEN [raised |-> "ValueError",
              self |-> [self EXCEPT !.os_variant = Id(key, <<>>)]]
        ELSE [raised |-> None, self |-> [self EXCEPT !.os_variant = variant]]

\* osobj.name[len("opensuse"):] as a segment of a location
NameSuffix(id) ==
    CASE id.tag = <<"tumbleweed">> -> "tumbleweed"
      [] id.tag = <<>> /\ id.ver = <<42, 3>> -> "42.3"
      [] id.tag = <<>> /\ id.ver = <<13, 2>> -> "13.2"
      [] OTHER -> "?"

\* SuseDistro._detect_osdict_from_url
_detect_osdict_from_url(self, db) ==
    LET IsOpensuse(o) == o.name.fam = "opensuse"
        oses == SelectSeq(db[QListOs], IsOpensuse)
        hits == {i \in 1..Len(oses) : HasSegment(self.uri, NameSuffix(oses[i].name))}
    IN  IF hits # {} THEN oses[CHOOSE i \in hits : \A j \in hits : i <= j].name
        ELSE self.os_variant

\* mutant: a SUSE probe without a content version looks for the content file
Suse_isValidStore_marker(self, f, db, cp) ==
    Returns(hasFile(f, "content"),
            <<Access("hasFile", "content", hasFile(f, "content"))>>, <<>>, self, cp)

\* SuseDistro.isValidStore
Suse_isValidStore(self, f, db, cp) ==
    LET sle11(id) == id.ver = <<11>> /\ id.tag = <<>> /\ id.fam \in {"sles", "sled"}
        Named(named) ==
            Returns(TRUE, <<>>, <<QListOs>>,
                    IF named.arch = "s390x" /\ sle11(named.os_variant)
                    THEN [named EXCEPT !._hvm_kernel_paths =
                            << << <<"boot", named.arch, "vmrdr.ikr">>,
                                  <<"boot", named.arch, "initrd">> >> >>]
                    ELSE named, cp)
        Versioned(v) ==
            IF v.raised # None THEN Raises(v.raised, <<>>, <<>>, v.self, cp)
            ELSE Named([v.self EXCEPT
                           !.os_variant = _detect_osdict_from_url(v.self, db)])
    IN  IF self.version_from_content = <<>>
        THEN Returns(FALSE, <<>>, <<>>, self, cp)
        ELSE Versioned(Suse_variantFromVersion(self))

-----------------------------------------------------------------------------
(* isValidStore, dispatched on the class of the instance                    *)

isValidStore(self, f, db, cp) ==
    CASE self.cls = "GenericDistro"  -> Generic_isValidStore(self, f, db, cp)
      [] self.cls = "FedoraDistro"   -> Fedora_isValidStore(self, f, db, cp)
      [] self.cls = "RHELDistro"     -> RHEL_isValidStore(self, f, db, cp)
      [] self.cls = "CentOSDistro"   -> CentOS_isValidStore(self, f, db, cp)
      [] self.cls = "SLDistro"       -> SL_isValidStore(self, f, db, cp)
      [] self.cls \in {"SuseDistro", "SLESDistro", "SLEDDistro", "OpensuseDistro"}
                                     -> Suse_isValidStore(self, f, db, cp)
      [] self.cls \in {"DebianDistro", "UbuntuDistro"}
                                     -> Debian_isValidStore(self, f, db, cp)
      [] self.cls = "MandrivaDistro" -> Mandriva_isValidStore(self, f, db, cp)
      [] self.cls = "ALTLinuxDistro" -> ALTLinux_isValidStore(self, f, db, cp)

-----------------------------------------------------------------------------
(* _distroFromSUSEContent                                                   *)

WordVERSION == <<"V", "E", "R", "S", "I", "O", "N">>

\* _parse_sle_distribution(d): [raised, value]
_parse_sle_distribution(d) ==
    LET words == split(strip(d[2]), " ")
    IN  IF Len(words) < 5 THEN [raised |-> "IndexError", value |-> <<>>]
        ELSE IF Len(words) > 5
        THEN IF Len(words[6]) < 3 THEN [raised |-> "IndexError", value |-> <<>>]
             ELSE [raised |-> None,
                   value |-> <<WordVERSION, words[5] \o <<".">> \o <<words[6][3]>>>>]
        ELSE [raised |-> None, value |-> <<WordVERSION, words[5]>>]

\* lines 128-142: [raised, dclass, distro_version]
ClassFromContent(distribution, distro_version) ==
    LET sle == _parse_sle_distribution(distribution)
        cpe == split(strip(distribution[1]), ":")
        Pick(dclass, derived) ==
            IF distro_version # <<>>
            THEN [raised |-> None, dclass |-> dclass, distro_version |-> distro_version]
            ELSE [raised |-> derived.raised, dclass |-> dclass,
                  distro_version |-> derived.value]
    IN  IF distribution = <<>>
        THEN [raised |-> None, dclass |-> "GenericDistro",
              distro_version |-> distro_version]
        ELSE IF Len(distribution) < 2
        THEN [raised |-> "IndexError", dclass |-> "GenericDistro",
              distro_version |-> distro_version]
        ELSE IF Contains(distribution[2], TxtSLES) \/ Contains(distribution[2], TxtSUSE_SLE)
        THEN Pick("SLESDistro", sle)
        ELSE IF Contains(distribution[2], TxtSLED)
        THEN Pick("SLEDDistro", sle)
        ELSE IF Contains(distribution[2], TxtOpenSUSE)
        THEN Pick("OpensuseDistro",
                  IF Len(cpe) < 5 THEN [raised |-> "IndexError", value |-> <<>>]
                  ELSE [raised |-> None, value |-> <<WordVERSION, cpe[5]>>])
        ELSE [raised |-> None, dclass |-> "GenericDistro",
              distro_version |-> distro_version]

\* What _distroFromSUSEContent did: ret is <<>> (None) or <<ob>>; valid is
\* <<>> or <<what ob.isValidStore() returned>>; acc holds the fetcher calls
\* and the probe it built and validated, in order.
LegacyResult(ret, valid, raised, acc, asked, cp) ==
    [ret |-> ret, valid |-> valid, raised |-> raised, acc |-> acc,
     asked |-> asked, clsPaths |-> cp]

\* _distroFromSUSEContent(fetcher, arch, vmtype)
_distroFromSUSEContent(f, db, cp, fetcherLocation, arch, vmtype) ==
    LET got == f["content"]
        acc == <<Access("acquireFileContent", "content", got.exists)>>
        \* lines 153-155: ob.isValidStore() returned or raised v
        Validated(dclass, v) ==
            IF v.raised # None
            THEN LegacyResult(<<>>, <<>>, v.raised,
                              acc \o <<ProbeNew("legacy", dclass)>> \o v.acc,
                              v.asked, v.clsPaths)
            ELSE LegacyResult(<<v.self>>, <<v.ret>>, None,
                              acc \o <<ProbeNew("legacy", dclass)>> \o v.acc
                                  \o <<ProbeValid("legacy", dclass, v.ret)>>,
                              v.asked, v.clsPaths)
        \* lines 148-150
        Built(chosen, ob) ==
            Validated(chosen.dclass,
                      isValidStore(IF chosen.dclass # "GenericDistro"
                                   THEN [ob EXCEPT !.version_from_content =
                                                        chosen.distro_version]
                                   ELSE ob, f, db, cp))
        \* lines 144-148
        Chosen(parsed, chosen) ==
            IF chosen.raised # None
            THEN LegacyResult(<<>>, <<>>, chosen.raised, acc, <<>>, cp)
            ELSE IF chosen.distro_version = <<>>
            THEN LegacyResult(<<>>, <<>>, None, acc, <<>>, cp)
            ELSE Built(chosen,
                       Instantiate(chosen.dclass, fetcherLocation,
                                   IF parsed.tree_arch # <<>>
                                   THEN ArchOfText(parsed.tree_arch)
                                   ELSE arch, vmtype))
        \* lines 118-142
        Parsed(parsed) ==
            IF parsed.raised # None
            THEN LegacyResult(<<>>, <<>>, parsed.raised, acc, <<>>, cp)
            ELSE Chosen(parsed, ClassFromContent(parsed.distribution,
                                                 parsed.distro_version))
    IN  IF ~got.exists
        THEN LegacyResult(<<>>, <<>>, None, acc, <<>>, cp)
        ELSE Parsed(_parseSUSEContent(got.body))

-----------------------------------------------------------------------------
(* What a source and OSDB may answer.                                      *)

V82 == <<"8", ".", "2">>
V23 == <<"2", "3">>
\* '23_Alpha' and 'fedora-23' of the comments at lines 505 and 509, shortened
V23Dev == <<"2", "3", "_", "A">>
V23Dash == <<"2", "3", "-", "1">>
\* the [general] section; each option is given as <<>> (left out) or <<value>>
GeneralSection(family, version, arch, nm) ==
    (IF family = <<>> THEN <<>> ELSE ("family" :> family[1]))
    @@ (IF version = <<>> THEN <<>> ELSE ("version" :> version[1]))
    @@ (IF arch = <<>> THEN <<>> ELSE ("arch" :> arch[1]))
    @@ (IF nm = <<>> THEN <<>> ELSE ("name" :> nm[1]))

\* the images-x86_64 section of a tree that names its media
ImagesSection ==
    ("kernel" :> "images/pxeboot/vmlinuz")
    @@ ("initrd" :> "images/pxeboot/initrd.img")
    @@ ("boot.iso" :> "images/boot.iso")

Families ==
    {FamilyFedora, FamilyRHEL, FamilyCentOS, <<"Scientific", "Linux">>, <<"Other">>}

\* descriptors of the five families with their media named, and the ones that
\* leave something out
Descriptors ==
    {(General :> GeneralSection(<<fam>>, ver, <<"x86_64">>, <<>>))
        @@ (Images("x86_64") :> ImagesSection) :
        fam \in Families, ver \in {<<V82>>, <<VerRawhide>>, << <<>> >>, <<>>}}
    \cup {General :> GeneralSection(<<FamilyRHEL>>, <<V82>>, <<"x86_64">>,
                                    <<ArmServerName>>),
          General :> GeneralSection(<<FamilyFedora>>, <<V23>>, <<"x86_64">>, <<>>),
          General :> GeneralSection(<<FamilyFedora>>, <<V23Dev>>, <<"x86_64">>, <<>>),
          General :> GeneralSection(<<FamilyFedora>>, <<V23Dash>>, <<"x86_64">>, <<>>),
          General :> GeneralSection(<<FamilyRHEL>>, <<V82>>, <<>>, <<>>),
          General :> GeneralSection(<< <<"Other">> >>, <<V82>>, <<"x86_64">>, <<>>),
          General :> GeneralSection(<<>>, <<V82>>, <<"x86_64">>, <<>>),
          Images("x86_64") :> ImagesSection}

TreeinfoAnswers ==
    {Absent, File([parses |-> FALSE, cfg |-> <<>>])}
    \cup {File([parses |-> TRUE, cfg |-> d]) : d \in Descriptors}

ContentOpenSUSE ==
    << <<"C", "O", "N", "T", "E", "N", "T", "S", "T", "Y", "L", "E", " ", "1", "1">>,
       <<"L", "A", "B", "E", "L", " ", "o", "p", "e", "n", "S", "U", "S", "E", " ", "1", "3", ".", "2">>,
       <<"V", "E", "R", "S", "I", "O", "N", " ", "1", "3", ".", "2">> >>
ContentSLES ==
    << <<"C", "O", "N", "T", "E", "N", "T", "S", "T", "Y", "L", "E", " ", "1", "1">>,
       <<"L", "A", "B", "E", "L", " ", "S", "U", "S", "E", " ", "L", "i", "n", "u", "x", " ", "E", "n", "t", "e", "r", "p", "r", "i", "s", "e", " ", "S", "e", "r", "v", "e", "r", " ", "1", "1", " ", "S", "P", "4">> >>
ContentUnknownVersioned ==
    << <<"C", "O", "N", "T", "E", "N", "T", "S", "T", "Y", "L", "E", " ", "1", "1">>,
       <<"L", "A", "B", "E", "L", " ", "F", "o", "o">>,
       <<"V", "E", "R", "S", "I", "O", "N", " ", "1", ".", "0">> >>
ContentUnknown ==
    << <<"C", "O", "N", "T", "E", "N", "T", "S", "T", "Y", "L", "E", " ", "1", "1">>,
       <<"L", "A", "B", "E", "L", " ", "F", "o", "o">> >>

ContentAnswers ==
    {Absent, File(ContentOpenSUSE), File(ContentSLES),
     File(ContentUnknownVersioned), File(ContentUnknown)}

ManifestAnswers ==
    {Absent,
     File(<< <<"netboot", "debian-installer", "amd64", "linux">> >>),
     File(<< <<"netboot", "ubuntu-installer", "amd64", "linux">> >>)}

DiskInfoAnswers ==
    {Absent, File(<< <<"Debian", "GNU/Linux", "9">> >>),
     File(<< <<"Ubuntu", "18.04">> >>), File(<< <<"ALT", "Linux">> >>)}

VersionFileAnswers ==
    {Absent, File(<< <<"Mandriva", "Linux">> >>), File(<< <<"other">> >>)}

\* the answers a source may give for a path
AnswersOf(path) ==
    CASE path = ".treeinfo" -> TreeinfoAnswers
      [] path = "content" -> ContentAnswers
      [] path \in {"current/images/MANIFEST", "daily/MANIFEST"} -> ManifestAnswers
      [] path = ".disk/info" -> DiskInfoAnswers
      [] path = "VERSION" -> VersionFileAnswers
      [] OTHER -> {Absent, File(<<>>)}

OsEntry(id, codename, label) == [name |-> id, codename |-> codename, label |-> label]

OsListFull ==
    << OsEntry(Id("debian", <<9>>), <<>>, <<"Debian", "Stretch">>),
       OsEntry(Id("debian", <<3, 1>>), <<>>, <<"Debian", "Sarge">>),
       OsEntry(Id("ubuntu", <<18, 4>>), <<"Bionic", "Beaver">>, <<"Ubuntu", "18.04">>),
       OsEntry(Id("opensuse", <<42, 3>>), <<>>, <<"openSUSE", "Leap", "42.3">>),
       OsEntry([fam |-> "opensuse", ver |-> <<>>, tag |-> <<"tumbleweed">>],
               <<>>, <<"openSUSE", "Tumbleweed">>) >>

LatestFedoraAnswers ==
    {Id("fedora", <<29>>), Id("fedora", <<22>>), Id("fedora-unknown", <<>>)}

\* the answers OSDB may give to a query
DbAnswersOf(q) ==
    CASE q = QLatestFedora -> LatestFedoraAnswers
      [] q = QListOs -> {OsListFull, <<>>}
      [] OTHER -> BOOLEAN

\* every path some method asks the fetcher for
AllPaths ==
    {".treeinfo", "content", "", "Fedora", "Server", "Client", "RedHat",
     "CentOS", "SL", "current/images/MANIFEST", "daily/MANIFEST", ".disk/info",
     "VERSION", "images/xen/vmlinuz", "images/xen/initrd.img",
     "images/pxeboot/vmlinuz", "images/pxeboot/initrd.img", "ppc/ppc64/vmlinuz",
     "ppc/ppc64/initrd.img", "images/boot.iso", "boot/boot.iso",
     "current/images/netboot/mini.iso", "install/images/boot.iso"}

\* The source as a method sees it: the answers given so far, and a
\* provisional Absent for a path that was never asked.
Assume(known) ==
    [p \in AllPaths |-> IF p \in DOMAIN known THEN known[p] ELSE Absent]

ProvisionalDbAnswer(q) ==
    CASE q = QLatestFedora -> Id("fedora", <<29>>)
      [] q = QListOs -> <<>>
      [] OTHER -> FALSE

\* OSDB as a method sees it, over the queries it may ask.
AssumeDb(known, queries) ==
    [q \in DOMAIN known \cup queries |->
        IF q \in DOMAIN known THEN known[q] ELSE ProvisionalDbAnswer(q)]

\* the answers the source may give now: the remembered one, if any
Ask(known, path) ==
    IF path \in DOMAIN known THEN {known[path]} ELSE AnswersOf(path)

\* the paths of acc that the source was never asked, in order
UnknownPaths(known, acc) ==
    LET IsNew(e) == e.ev = "access" /\ e.path \notin DOMAIN known
    IN  SelectSeq(acc, IsNew)

\* the queries of asked that OSDB was never asked, in order
UnknownQueries(known, asked) ==
    LET IsNew(q) == q \notin DOMAIN known
    IN  SelectSeq(asked, IsNew)

\* the ids _setRHELVariant may look up for a version text
RHELLookups(ver) ==
    LET Both(ids) ==
            {QLookup(id) : id \in ids} \cup {QLookup(ReplaceRhelByCentos(id)) : id \in ids}
        Ids(parsed) ==
            Both({Id("rhel", <<parsed[1], u>>) : u \in 0..parsed[2]}
                 \cup {Id("rhel", <<parsed[1]>>), Id("rhel", <<ArmServerVersion, 0>>),
                       Id("rhel", <<ArmServerVersion>>)})
    IN  Ids(_parseTreeinfoVersion(ver))

\* the queries isValidStore of an instance may ask OSDB
QueriesFor(self) ==
    IF self.cls = "FedoraDistro" THEN {QLatestFedora}
    ELSE IF self.cls \in {"RHELDistro", "CentOSDistro", "SLDistro"}
    THEN IF has_option(self.treeinfo, General, "version")
            /\ Get(self.treeinfo, General, "version") # <<>>
         THEN RHELLookups(Get(self.treeinfo, General, "version"))
         ELSE {}
    ELSE IF self.cls = "GenericDistro" THEN {}
    ELSE {QListOs}

-----------------------------------------------------------------------------
(* getDistroStore as a state machine.                                      *)

Hints == {None, "fedora", "centos", "debian", "opensuse", "freebsd"}

Guests == [arch : {"x86_64"}, os_type : {"hvm", "xen"}, urldistro : Hints]

\* "/mnt/iso" and "http://host/dists/sarge/main/installer-amd64/"
Locations ==
    { <<"", "mnt", "iso">>,
      <<"http:", "", "host", "dists", "sarge", "main", "installer-amd64", "">> }

NoStore == NewStore(None, <<>>, None, None)

Running == [kind |-> "running", via |-> None, exc |-> None,
            location |-> <<>>, mistyped |-> FALSE]
\* `return store`
Found(via) == [kind |-> "store", via |-> via, exc |-> None,
               location |-> <<>>, mistyped |-> FALSE]
\* the ValueError of lines 212-216
NoDistro(fetcherLocation, mistyped) ==
    [kind |-> "nodistro", via |-> None, exc |-> "ValueError",
     location |-> fetcherLocation, mistyped |-> mistyped]
\* any other exception that leaves getDistroStore
Error(exc) == [kind |-> "error", via |-> None, exc |-> exc,
               location |-> <<>>, mistyped |-> FALSE]

NoClsPaths == [hvm |-> <<>>, xen |-> <<>>, iso |-> <<>>, version_from_content |-> <<>>]

\* what a call of getDistroStore gave its caller: how it ended and, for a
\* probe, its class and os_variant
Returned(out, self) == [outcome |-> out, cls |-> self.cls, os_variant |-> self.os_variant]

NoEarlier == Returned(Running, NoStore)

Init ==
    /\ pc = "start"
    /\ run = 1
    /\ guest \in Guests
    /\ location \in Locations
    /\ fetcher = <<>>
    /\ osdb = <<>>
    /\ treeinfo = NoTreeinfo
    /\ stores = <<>>
    /\ idx = 0
    /\ store = NoStore
    /\ outcome = Running
    /\ trace = <<>>
    /\ unlinked = <<>>
    /\ clsPaths = NoClsPaths
    /\ globals = ModuleClasses
    /\ allstores = _build_distro_list(ModuleClasses).ret
    /\ earlier = NoEarlier
    /\ scan = NoScan
    /\ fetched = <<>>

\* mutant: the content file is tried whatever the descriptor
AfterTreeinfo_always(ti) == "content"

\* line 167: `if not treeinfo:` sends the run through _distroFromSUSEContent
AfterTreeinfo(ti) == IF ti = NoTreeinfo THEN "content" ELSE "stores"

\* line 166: treeinfo = _grabTreeinfo(fetcher)
GrabTreeinfo ==
    /\ pc = "start"
    /\ \E a \in Ask(fetcher, ".treeinfo") :
         LET f == Assume(fetcher @@ (".treeinfo" :> a))
             r == _grabTreeinfo(f)
         IN  /\ fetcher' = Remember(fetcher, f, r.acc)
             /\ trace' = trace \o r.acc
             /\ unlinked' = unlinked \o r.unlinked
             /\ treeinfo' = r.ret
             /\ outcome' = IF r.raised # None THEN Error(r.raised) ELSE outcome
             /\ pc' = IF r.raised # None THEN "done" ELSE AfterTreeinfo(r.ret)
    /\ UNCHANGED <<run, guest, location, osdb, stores, idx, store, clsPaths,
                   globals, allstores, earlier,
                   scan, fetched>>

\* The answers of the source and of OSDB that _distroFromSUSEContent meets:
\* every question it asks that has no remembered answer is answered in every
\* possible way, one question after the other.
RECURSIVE ContentWorlds(_, _, _, _, _, _)
ContentWorlds(known, knowndb, cp, fetcherLocation, arch, vmtype) ==
    LET More(up, uq) ==
            IF up # <<>>
            THEN UNION {ContentWorlds(known @@ (up[1].path :> a), knowndb, cp,
                                      fetcherLocation, arch, vmtype) :
                        a \in AnswersOf(up[1].path)}
            ELSE IF uq # <<>>
            THEN UNION {ContentWorlds(known, knowndb @@ (uq[1] :> a), cp,
                                      fetcherLocation, arch, vmtype) :
                        a \in DbAnswersOf(uq[1])}
            ELSE {<<known, knowndb>>}
        Asked(r) == More(UnknownPaths(known, r.acc),
                         UnknownQueries(knowndb, r.asked))
    IN  Asked(_distroFromSUSEContent(Assume(known), AssumeDb(knowndb, {QListOs}),
                                     cp, fetcherLocation, arch, vmtype))

\* lines 167-170: the SUSE content path
ContentPath ==
    /\ pc = "content"
    /\ \E w \in ContentWorlds(fetcher, osdb, clsPaths, location,
                              guest.arch, guest.os_type) :
         \E r \in {_distroFromSUSEContent(Assume(w[1]), AssumeDb(w[2], {QListOs}),
                                          clsPaths, location,
                                          guest.arch, guest.os_type)} :
             /\ fetcher' = w[1]
             /\ osdb' = w[2]
             /\ trace' = trace \o r.acc
             /\ clsPaths' = r.clsPaths
             /\ store' = IF r.ret # <<>> THEN r.ret[1] ELSE store
             /\ outcome' = IF r.raised # None THEN Error(r.raised)
                           ELSE IF r.ret # <<>> THEN Found("legacy")
                           ELSE outcome
             /\ pc' = IF r.raised # None \/ r.ret # <<>> THEN "done" ELSE "stores"
    /\ UNCHANGED <<run, guest, location, treeinfo, stores, idx, unlinked,
                   globals, allstores, earlier,
                   scan, fetched>>

\* lines 172-193: the candidate order
BuildStores ==
    /\ pc = "stores"
    /\ stores' = CandidateOrder(guest.urldistro, treeinfo)
    /\ idx' = 1
    /\ pc' = "probe"
    /\ UNCHANGED <<run, guest, location, fetcher, osdb, treeinfo, store,
                   outcome, trace, unlinked, clsPaths, globals, allstores, earlier,
                   scan, fetched>>

\* The answers of the source and of OSDB that isValidStore of `built` meets.
RECURSIVE ProbeWorlds(_, _, _, _)
ProbeWorlds(known, knowndb, built, cp) ==
    LET More(up, uq) ==
            IF up # <<>>
            THEN UNION {ProbeWorlds(known @@ (up[1].path :> a), knowndb, built, cp) :
                        a \in AnswersOf(up[1].path)}
            ELSE IF uq # <<>>
            THEN UNION {ProbeWorlds(known, knowndb @@ (uq[1] :> a), built, cp) :
                        a \in DbAnswersOf(uq[1])}
            ELSE {<<known, knowndb>>}
        Asked(r) == More(UnknownPaths(known, r.acc),
                         UnknownQueries(knowndb, r.asked))
    IN  Asked(isValidStore(built, Assume(known),
                           AssumeDb(knowndb, QueriesFor(built)), cp))

\* mutant: the loop goes on after a match
LoopNext_nostop(matched, i, n) ==
    IF i < n THEN [pc |-> "probe", idx |-> i + 1]
    ELSE [pc |-> IF matched THEN "done" ELSE "nodistro", idx |-> i]

\* mutant: the loop gives up at the first probe that does not match
LoopNext_giveup(matched, i, n) ==
    IF matched THEN [pc |-> "done", idx |-> i]
    ELSE [pc |-> "nodistro", idx |-> i]

\* lines 195-201: where the loop goes after stores[i] of n reported `matched`:
\* `return store`, the next class, or past the loop
LoopNext(matched, i, n) ==
    IF matched THEN [pc |-> "done", idx |-> i]
    ELSE IF i < n THEN [pc |-> "probe", idx |-> i + 1]
    ELSE [pc |-> "nodistro", idx |-> i]

\* lines 195-201: one turn of the loop over stores
ProbeStore ==
    /\ pc = "probe"
    /\ LET sclass == stores[idx]
       IN  \E built \in {[Instantiate(sclass, location, guest.arch, guest.os_type)
                              EXCEPT !.treeinfo = treeinfo]} :
           \E w \in ProbeWorlds(fetcher, osdb, built, clsPaths) :
           \E r \in {isValidStore(built, Assume(w[1]),
                                  AssumeDb(w[2], QueriesFor(built)), clsPaths)} :
                 /\ fetcher' = w[1]
                 /\ osdb' = w[2]
                 /\ clsPaths' = r.clsPaths
                 /\ store' = r.self
                 /\ trace' = trace \o <<ProbeNew("enum", sclass)>> \o r.acc
                        \o (IF r.raised = None
                            THEN <<ProbeValid("enum", sclass, r.ret)>> ELSE <<>>)
                 /\ outcome' = IF r.raised # None THEN Error(r.raised)
                               ELSE IF r.ret THEN Found("enum")
                               ELSE outcome
                 /\ pc' = IF r.raised # None THEN "done"
                          ELSE LoopNext(r.ret, idx, Len(stores)).pc
                 /\ idx' = IF r.raised # None THEN idx
                           ELSE LoopNext(r.ret, idx, Len(stores)).idx
    /\ UNCHANGED <<run, guest, location, treeinfo, stores, unlinked,
                   globals, allstores, earlier,
                   scan, fetched>>

\* mutant: the hint is added whenever no distribution was found
RootCheckOutcome_always(fetcherLocation, rootExists) ==
    NoDistro(fetcherLocation, TRUE)

\* lines 207-216
RootCheckOutcome(fetcherLocation, rootExists) ==
    NoDistro(fetcherLocation, ~rootExists)

\* lines 203-216: no distro was detected
RootCheck ==
    /\ pc = "nodistro"
    /\ \E a \in Ask(fetcher, "") :
         LET f == Assume(fetcher @@ ("" :> a))
             acc == <<Access("hasFile", "", hasFile(f, ""))>>
         IN  /\ fetcher' = Remember(fetcher, f, acc)
             /\ trace' = trace \o acc
             /\ outcome' = RootCheckOutcome(location, hasFile(f, ""))
    /\ pc' = "done"
    /\ UNCHANGED <<run, guest, location, osdb, treeinfo, stores, idx, store,
                   unlinked, clsPaths, globals, allstores, earlier,
                   scan, fetched>>

\* the next call of getDistroStore, for another guest and source; only the
\* class attributes live on
NextRun ==
    /\ pc = "done"
    /\ run < MaxRuns
    /\ run' = run + 1
    /\ pc' = "start"
    /\ guest' \in Guests
    /\ location' \in Locations
    /\ fetcher' = <<>>
    /\ osdb' = <<>>
    /\ treeinfo' = NoTreeinfo
    /\ stores' = <<>>
    /\ idx' = 0
    /\ store' = NoStore
    /\ outcome' = Running
    /\ trace' = <<>>
    /\ unlinked' = <<>>
    /\ UNCHANGED <<clsPaths, globals, allstores, earlier,
                   scan, fetched>>

Next ==
    \/ GrabTreeinfo
    \/ ContentPath
    \/ BuildStores
    \/ ProbeStore
    \/ RootCheck
    \/ NextRun

Spec == Init /\ [][Next]_vars

-----------------------------------------------------------------------------
(* The same call made again: same guest, same location, and a source and   *)
(* an OSDB that answer every question they were asked before as before.     *)

RepeatRun ==
    /\ pc = "done"
    /\ run < MaxRuns
    /\ run' = run + 1
    /\ pc' = "start"
    /\ earlier' = Returned(outcome, store)
    /\ treeinfo' = NoTreeinfo
    /\ stores' = <<>>
    /\ idx' = 0
    /\ store' = NoStore
    /\ outcome' = Running
    /\ trace' = <<>>
    /\ unlinked' = <<>>
    /\ UNCHANGED <<guest, location, fetcher, osdb, clsPaths, globals, allstores,
                   scan, fetched>>

NextRepeat ==
    \/ GrabTreeinfo
    \/ ContentPath
    \/ BuildStores
    \/ ProbeStore
    \/ RootCheck
    \/ RepeatRun

SpecRepeat == Init /\ [][NextRepeat]_vars

-----------------------------------------------------------------------------
(* Importing the module: line 1059 runs _build_distro_list() over whatever  *)
(* Distro subclasses the module namespace holds.                            *)

\* how many classes a namespace declares besides GenericDistro
MaxDeclared == 3

DeclaredNames == <<"ADistro", "BDistro", "CDistro", "DDistro", "EDistro">>

\* the namespaces with n classes besides GenericDistro: each class with or
\* without a name and with one of two urldistro values or none
RECURSIVE Namespaces(_)
Namespaces(n) ==
    IF n = 0 THEN {<<>>}
    ELSE {Append(ns, ClassObject(DeclaredNames[n], nm, key)) :
            ns \in Namespaces(n - 1), nm \in {None, "Some"},
            key \in {None, "fedora", "debian"}}

GenericObject == ClassObject("GenericDistro", name("GenericDistro"),
                             urldistro("GenericDistro"))

\* GenericDistro declared at position k of the namespace ns
WithGeneric(ns, k) ==
    [i \in 1..(Len(ns) + 1) |->
        IF i < k THEN ns[i] ELSE IF i = k THEN GenericObject ELSE ns[i - 1]]

InitImport ==
    /\ pc = "import"
    /\ globals \in {ModuleClasses}
                  \cup UNION {{WithGeneric(ns, k) : k \in 1..(Len(ns) + 1)} :
                               ns \in UNION {Namespaces(n) : n \in 0..MaxDeclared}}
    /\ allstores = <<>>
    /\ run = 1
    /\ guest = [arch |-> "x86_64", os_type |-> "hvm", urldistro |-> None]
    /\ location = <<>>
    /\ fetcher = <<>>
    /\ osdb = <<>>
    /\ treeinfo = NoTreeinfo
    /\ stores = <<>>
    /\ idx = 0
    /\ store = NoStore
    /\ outcome = Running
    /\ trace = <<>>
    /\ unlinked = <<>>
    /\ clsPaths = NoClsPaths
    /\ earlier = NoEarlier
    /\ scan = NoScan
    /\ fetched = <<>>

\* line 1059: _allstores = _build_distro_list()
ImportModule ==
    /\ pc = "import"
    /\ \E r \in {_build_distro_list(globals)} :
         /\ allstores' = r.ret
         /\ outcome' = IF r.raised # None THEN Error(r.raised) ELSE outcome
         /\ pc' = IF r.raised # None THEN "done" ELSE "imported"
    /\ UNCHANGED <<run, guest, location, fetcher, osdb, treeinfo, stores, idx,
                   store, trace, unlinked, clsPaths, globals, earlier,
                   scan, fetched>>

SpecImport == InitImport /\ [][ImportModule]_vars

-----------------------------------------------------------------------------
(* What a run did, read off its trace.                                     *)

\* the classes instantiated by the loop of lines 195-201, in order
EnumInstantiated ==
    LET IsNew(e) == e.ev = "new" /\ e.op = "enum"
        news == SelectSeq(trace, IsNew)
    IN  [i \in 1..Len(news) |-> news[i].cls]

\* the isValidStore() results of the loop, in order
EnumValidated ==
    LET IsValid(e) == e.ev = "valid" /\ e.op = "enum"
    IN  SelectSeq(trace, IsValid)

\* the positions of the trace at which the fetcher was asked for path
AccessesOf(path) ==
    {i \in 1..Len(trace) : trace[i].ev = "access" /\ trace[i].path = path}

\* the positions of the trace at which a probe was instantiated
Instantiations == {i \in 1..Len(trace) : trace[i].ev = "new"}

\* stores has been built in this run
StoresBuilt == stores # <<>>

\* the candidate order of lines 172-190 written out: the class of the hint
\* first and the registry without it behind, or the registry as it is
HintedOrder(hint) ==
    LET hits == {c \in Range(_allstores) : hint # None /\ urldistro(c) = hint}
    IN  IF hits = {} THEN _allstores
        ELSE LET c == CHOOSE x \in hits : TRUE
             IN  <<c>> \o Remove(_allstores, c)

-----------------------------------------------------------------------------
(* The orchestration of getDistroStore.                                    *)

\* C1: the loop instantiates the classes of the candidate order one after the
\* other; a run that returns a probe of the loop returns the first one whose
\* isValidStore() was true: every class before it was validated and was false,
\* and the true result is the last thing the run did (nothing is instantiated,
\* validated or fetched after it).
C1_FirstMatchReturned ==
    /\ Len(EnumInstantiated) <= Len(stores)
    /\ \A i \in 1..Len(EnumInstantiated) : EnumInstantiated[i] = stores[i]
    /\ outcome = Found("enum") =>
         /\ Len(EnumValidated) = Len(EnumInstantiated)
         /\ Len(EnumValidated) >= 1
         /\ \A i \in 1..(Len(EnumValidated) - 1) : ~EnumValidated[i].ok
         /\ EnumValidated[Len(EnumValidated)].ok
         /\ trace[Len(trace)] = EnumValidated[Len(EnumValidated)]
         /\ store.cls = stores[Len(EnumValidated)]
         /\ pc = "done"

\* a run returned the third class of its order, with classes left behind it
C1_Witness ==
    /\ outcome = Found("enum")
    /\ Len(EnumValidated) = 3
    /\ Len(stores) > 3

\* C2 (as the specification states it): whatever the hint and the descriptor,
\* GenericDistro is the last class of the order that is iterated, and it is
\* instantiated only after every other class was validated.
C2_GenericLast ==
    StoresBuilt =>
        /\ stores[Len(stores)] = "GenericDistro"
        /\ \A i \in 1..Len(EnumInstantiated) :
                EnumInstantiated[i] = "GenericDistro" => i = Len(stores)

\* C3: a hint that is the urldistro of a class puts that class first and
\* leaves the others in registry order; no hint, or a hint of no class, leaves
\* the registry order.  Without a descriptor this is the order the loop
\* iterates, so the first class the loop validates is the hinted one.
C3_HintFirst ==
    /\ \A hint \in Hints : PrioritizeHint(_allstores, hint) = HintedOrder(hint)
    /\ (StoresBuilt /\ treeinfo = NoTreeinfo) =>
         /\ stores = HintedOrder(guest.urldistro)
         /\ \A i \in 1..Len(EnumInstantiated) :
                EnumInstantiated[i] = HintedOrder(guest.urldistro)[i]
         /\ \A c \in Range(_allstores) :
                (guest.urldistro # None /\ urldistro(c) = guest.urldistro
                    /\ EnumInstantiated # <<>>) => EnumInstantiated[1] = c

\* hint debian, no descriptor: DebianDistro was validated first, FedoraDistro
\* after it
C3_Witness ==
    /\ guest.urldistro = "debian"
    /\ treeinfo = NoTreeinfo
    /\ Len(EnumValidated) >= 2
    /\ EnumInstantiated[1] = "DebianDistro"
    /\ EnumInstantiated[2] = "FedoraDistro"

\* C4: with a descriptor the iterated order is the order of the hint step
\* rearranged so that every class with uses_treeinfo comes before every class
\* without it, and two classes of the same group keep the order the hint step
\* gave them.
C4_StableGroups ==
    (StoresBuilt /\ treeinfo # NoTreeinfo) =>
        LET hinted == HintedOrder(guest.urldistro)
        IN  /\ Len(stores) = Len(hinted)
            /\ Range(stores) = Range(hinted)
            /\ \A i, j \in 1..Len(stores) :
                 /\ (uses_treeinfo(stores[i]) /\ ~uses_treeinfo(stores[j])) => i < j
                 /\ (i < j /\ uses_treeinfo(stores[i]) = uses_treeinfo(stores[j]))
                        => IndexOf(hinted, stores[i]) < IndexOf(hinted, stores[j])

\* hint debian and a descriptor: DebianDistro is the first class behind the
\* descriptor-aware ones, and the loop got as far as instantiating it
C4_Witness ==
    /\ StoresBuilt
    /\ treeinfo # NoTreeinfo
    /\ guest.urldistro = "debian"
    /\ \E i \in 1..Len(EnumInstantiated) :
         /\ EnumInstantiated[i] = "DebianDistro"
         /\ i > 1
         /\ uses_treeinfo(stores[i - 1])

\* hint centos, family "Red Hat Enterprise Linux", version "8.2"
RhelTreeForCentosHint ==
    /\ guest.urldistro = "centos"
    /\ treeinfo # NoTreeinfo
    /\ Get(treeinfo, General, "family") = FamilyRHEL
    /\ has_option(treeinfo, General, "version")
    /\ Get(treeinfo, General, "version") = V82

\* OSDB was asked for id and said it has it
CatalogHas(id) == QLookup(id) \in DOMAIN osdb /\ osdb[QLookup(id)]

\* the id _setRHELVariant settles on: the largest update not above `update`
\* that the catalog has, else the bare major, else none
RhelFallback(version, update) ==
    LET ups == {u \in 0..update : CatalogHas(Id("rhel", <<version, u>>))}
    IN  IF ups # {}
        THEN Id("rhel", <<version, CHOOSE u \in ups : \A v \in ups : v <= u>>)
        ELSE IF CatalogHas(Id("rhel", <<version>>)) THEN Id("rhel", <<version>>)
        ELSE NoVariant

\* C5 (as the specification states it): with hint centos and a descriptor of
\* family "Red Hat Enterprise Linux" and version "8.2" the probe returned is
\* the CentOS probe.
C5_CentosProbeReturned ==
    (RhelTreeForCentosHint /\ outcome.kind = "store") => store.cls = "CentOSDistro"

\* C5 (amended): with that hint and descriptor CentOSDistro is validated
\* first and is false, FedoraDistro is false, and the run returns the
\* RHELDistro probe; its os_variant is rhel8.k for the largest k <= 2 the
\* catalog has, else rhel8 if the catalog has it, else unset (7.0 and 7 take
\* the place of 8.k and 8 when general.name is the ARM server name); it is
\* never a centos id.
C5_RhelProbeReturned ==
    (RhelTreeForCentosHint /\ pc = "done") =>
        /\ outcome = Found("enum")
        /\ EnumInstantiated = <<"CentOSDistro", "FedoraDistro", "RHELDistro">>
        /\ ~EnumValidated[1].ok
        /\ ~EnumValidated[2].ok
        /\ store.cls = "RHELDistro"
        /\ store.os_variant.fam # "centos"
        /\ store.os_variant =
             IF has_option(treeinfo, General, "name")
                /\ StartsWith(Get(treeinfo, General, "name"), ArmServerName)
             THEN RhelFallback(ArmServerVersion, 0)
             ELSE RhelFallback(8, 2)

\* the run returned the RHEL probe with rhel8.1: the catalog lacks rhel8.2
C5_Witness ==
    /\ RhelTreeForCentosHint
    /\ pc = "done"
    /\ store.cls = "RHELDistro"
    /\ store.os_variant = Id("rhel", <<8, 1>>)

\* C6: `content` is requested only when _grabTreeinfo returned no descriptor;
\* it is then the second request of the run, right after .treeinfo and before
\* any probe is instantiated.  A run with a descriptor never requests it.
C6_ContentOnlyWithoutDescriptor ==
    /\ treeinfo # NoTreeinfo => AccessesOf("content") = {}
    /\ AccessesOf("content") \subseteq {2}
    /\ \A i \in AccessesOf("content") :
         /\ treeinfo = NoTreeinfo
         /\ trace[1].path = ".treeinfo"
         /\ \A j \in Instantiations : i < j
    /\ (treeinfo = NoTreeinfo /\ pc \in {"stores", "probe", "nodistro"})
         => AccessesOf("content") = {2}

\* no descriptor, content was requested and the loop went on to validate
C6_Witness ==
    /\ treeinfo = NoTreeinfo
    /\ AccessesOf("content") = {2}
    /\ Len(EnumValidated) >= 1

\* C7 (as the specification states it): a probe that a run returns was
\* validated and matched, through the content path as through the loop.
C7_ReturnedProbeMatched ==
    outcome.kind = "store" =>
        /\ trace[Len(trace)].ev = "valid"
        /\ trace[Len(trace)].ok
        /\ trace[Len(trace)].cls = store.cls

\* C8: the ValueError of lines 212-216 is raised only after every class of the
\* order was validated and was false; hasFile("") is called once, as the last
\* thing of such a run, and never in a run that returns a probe.
C8_FailureAfterExhaustion ==
    /\ outcome.kind = "nodistro" =>
         /\ Len(stores) = Len(_allstores)
         /\ EnumInstantiated = stores
         /\ Len(EnumValidated) = Len(stores)
         /\ \A i \in 1..Len(EnumValidated) : ~EnumValidated[i].ok
         /\ AccessesOf("") = {Len(trace)}
    /\ pc = "nodistro" =>
         /\ Len(EnumValidated) = Len(stores)
         /\ \A i \in 1..Len(EnumValidated) : ~EnumValidated[i].ok
    /\ AccessesOf("") # {} => outcome.kind = "nodistro"
    /\ outcome.kind = "store" => AccessesOf("") = {}

\* a run ended in the ValueError
C8_Witness ==
    /\ outcome.kind = "nodistro"
    /\ Len(EnumValidated) = Len(_allstores)
    /\ AccessesOf("") # {}

\* C9: the failure is a ValueError that carries fetcher.location; it carries
\* the "maybe you mistyped" text exactly when hasFile("") was false.
C9_MistypedHint ==
    outcome.kind = "nodistro" =>
        /\ outcome.exc = "ValueError"
        /\ outcome.location = location
        /\ trace[Len(trace)].op = "hasFile"
        /\ trace[Len(trace)].path = ""
        /\ outcome.mistyped = ~trace[Len(trace)].ok

\* the root exists and the failure comes without the text
C9_Witness ==
    /\ outcome.kind = "nodistro"
    /\ trace[Len(trace)].ok
    /\ ~outcome.mistyped

\* C10: a run requests .treeinfo once, as its first request; every probe the
\* loop instantiates holds what that request gave; a new run starts with
\* nothing fetched and requests .treeinfo again.
C10_DescriptorOncePerRun ==
    /\ pc = "start" => (trace = <<>> /\ fetcher = <<>> /\ treeinfo = NoTreeinfo)
    /\ pc # "start" =>
         /\ AccessesOf(".treeinfo") = {1}
         /\ trace[1].op = "acquireFile"
         /\ ".treeinfo" \in DOMAIN fetcher
         /\ treeinfo # NoTreeinfo => treeinfo = fetcher[".treeinfo"].body.cfg
    /\ (EnumInstantiated # <<>> /\ store.cls # None /\ outcome # Found("legacy"))
         => store.treeinfo = treeinfo

\* the second run fetched its own descriptor and gave it to two probes
C10_Witness ==
    /\ run = 2
    /\ treeinfo # NoTreeinfo
    /\ Len(EnumValidated) >= 2
    /\ store.treeinfo = treeinfo

-----------------------------------------------------------------------------
(* The descriptor reader and incomplete descriptors.                        *)

\* an exception left _grabTreeinfo: the run ended in an error with the request
\* for .treeinfo as the only thing it did
ReaderRaised == outcome.kind = "error" /\ Len(trace) = 1

\* what the source answered for .treeinfo gives no usable descriptor
NoUsableDescriptor(a) ==
    \/ ~a.exists
    \/ ~a.body.parses
    \/ ~has_option(a.body.cfg, General, "family")

\* C11 (as the specification states it): _grabTreeinfo never raises; it
\* returns no descriptor when the file is absent, cannot be retrieved, does not
\* parse, has no [general] section or has one without `family`, and it returns
\* a descriptor only when general.family is there.
C11_ReaderNeverRaises ==
    pc # "start" =>
        /\ ~ReaderRaised
        /\ treeinfo # NoTreeinfo => has_option(treeinfo, General, "family")
        /\ NoUsableDescriptor(fetcher[".treeinfo"]) => treeinfo = NoTreeinfo

\* C12 (as the specification states it): a run whose descriptor has
\* general.family never ends in an exception of a probe; it ends with a probe
\* returned or with the ValueError of lines 212-216.
C12_IncompleteDescriptorDegrades ==
    treeinfo # NoTreeinfo =>
        /\ outcome.kind # "error"
        /\ pc = "done" => outcome.kind \in {"store", "nodistro"}

\* C13: the temporary copy acquireFile gave is unlinked exactly once by the
\* time _grabTreeinfo returns or raises (parsed, parse failure, no section, no
\* family option); when acquireFile gave none, nothing is unlinked.
C13_TemporaryCopyReleasedOnce ==
    /\ pc = "start" => unlinked = <<>>
    /\ pc # "start" =>
         unlinked = IF trace[1].ok THEN <<".treeinfo">> ELSE <<>>

\* the parse failed, ParsingError left the reader, and the copy is unlinked
C13_Witness ==
    /\ ReaderRaised
    /\ outcome.exc = "ParsingError"
    /\ trace[1].ok
    /\ unlinked = <<".treeinfo">>

-----------------------------------------------------------------------------
(* The registry.                                                            *)

\* the classes of the namespace that _build_distro_list keeps (line 1042)
NamedClasses ==
    LET HasName(c) == c.name # None
    IN  SelectSeq(globals, HasName)

\* two of them declare the same urldistro
KeyCollision ==
    \E i, j \in 1..Len(NamedClasses) :
        /\ i # j
        /\ NamedClasses[i].urldistro # None
        /\ NamedClasses[i].urldistro = NamedClasses[j].urldistro

\* C14: importing the module ends in RuntimeError, with no registry, exactly
\* when two named classes share a urldistro that is set; otherwise the registry
\* holds every named class once, GenericDistro last, and no two of its classes
\* share a urldistro that is set.  Classes without urldistro never collide.
C14_UniqueUrldistro ==
    pc # "import" =>
        /\ KeyCollision <=> outcome = Error("RuntimeError")
        /\ KeyCollision => (allstores = <<>> /\ pc = "done")
        /\ ~KeyCollision =>
             /\ pc = "imported"
             /\ Len(allstores) = Len(NamedClasses)
             /\ Range(allstores) = Range(NamedClasses)
             /\ allstores[Len(allstores)].cls = "GenericDistro"
             /\ \A i, j \in 1..Len(allstores) :
                    (i # j /\ allstores[i].urldistro # None)
                        => allstores[i].urldistro # allstores[j].urldistro

\* a namespace with two named classes of urldistro "fedora" and a third class
\* without urldistro, as GenericDistro has none: the import failed
C14_Witness ==
    /\ pc = "done"
    /\ outcome = Error("RuntimeError")
    /\ Cardinality({i \in 1..Len(NamedClasses) :
                        NamedClasses[i].urldistro = "fedora"}) = 2
    /\ Cardinality({i \in 1..Len(NamedClasses) :
                        NamedClasses[i].urldistro = None}) = 2

-----------------------------------------------------------------------------
(* What validation leaves behind.                                           *)

\* the last thing the run did was an isValidStore() of the loop that returned;
\* `store` is that probe as the call left it
JustValidated ==
    /\ trace # <<>>
    /\ trace[Len(trace)].ev = "valid"
    /\ trace[Len(trace)].op = "enum"

\* the kernel path lists a probe reads through self._hvm_kernel_paths and
\* self._xen_kernel_paths: its own, or the ones of the class
KernelPathsOf(self, cp) ==
    IF self.usesClassPaths THEN <<cp.hvm, cp.xen>>
    ELSE <<self._hvm_kernel_paths, self._xen_kernel_paths>>

\* C15 (as the specification states it): isValidStore() called once more on
\* the probe just validated, the source and OSDB answering as before, returns
\* what the first call returned and leaves the probe as the first call left
\* it: os_variant, _version_number, the valid kernel and ISO path and the
\* kernel path lists.
C15_ValidationIdempotent ==
    LET Same(again) ==
            UnknownPaths(fetcher, again.acc) = <<>> =>
                /\ again.raised = None
                /\ again.ret = trace[Len(trace)].ok
                /\ again.self.os_variant = store.os_variant
                /\ again.self._version_number = store._version_number
                /\ again.self._valid_kernel_path = store._valid_kernel_path
                /\ again.self._valid_iso_path = store._valid_iso_path
                /\ again.self._boot_iso_paths = store._boot_iso_paths
                /\ KernelPathsOf(again.self, again.clsPaths)
                        = KernelPathsOf(store, clsPaths)
    IN  JustValidated =>
            Same(isValidStore(store, Assume(fetcher),
                              AssumeDb(osdb, QueriesFor(store)), clsPaths))

\* C16 (as the specification states it): whatever runs were made, the state
\* shared by all probes is what it was when the module was imported: the
\* registry and the class-level lists _hvm_kernel_paths, _xen_kernel_paths,
\* _boot_iso_paths and version_from_content.
C16_SharedStateUnchanged ==
    /\ allstores = _build_distro_list(ModuleClasses).ret
    /\ clsPaths = NoClsPaths

-----------------------------------------------------------------------------
(* Repeated detection.                                                      *)

-----------------------------------------------------------------------------
(* A tree that has nothing but Generic's paths.                             *)

\* the files whose presence a named class takes as its signature
MarkerPaths ==
    {"Fedora", "Server", "Client", "RedHat", "CentOS", "SL",
     "current/images/MANIFEST", "daily/MANIFEST", ".disk/info", "VERSION"}

\* the run found no descriptor, no content file and no marker file
NothingButPaths ==
    /\ pc = "done"
    /\ treeinfo = NoTreeinfo
    /\ ~fetcher[".treeinfo"].exists
    /\ "content" \in DOMAIN fetcher
    /\ ~fetcher["content"].exists
    /\ \A p \in MarkerPaths \cap DOMAIN fetcher : ~fetcher[p].exists

\* A source that answers everything this run asked as it was answered may
\* have every path of `layout`: none of them was asked and found absent.
MayHave(layout) == \A p \in layout : p \in DOMAIN fetcher => fetcher[p].exists

PairLayouts(kern_list) == {{kern_list[i][1], kern_list[i][2]} : i \in 1..Len(kern_list)}

IsoLayouts == {{Generic_iso_paths[i]} : i \in 1..Len(Generic_iso_paths)}

\* the run validated every named class, each was false, then GenericDistro
\* was true and was returned
GenericAfterAllNamed ==
    /\ outcome = Found("enum")
    /\ store.cls = "GenericDistro"
    /\ Len(EnumValidated) = Len(_allstores)
    /\ {EnumValidated[i].cls : i \in 1..(Len(EnumValidated) - 1)}
            = Range(_allstores) \ {"GenericDistro"}
    /\ \A i \in 1..(Len(EnumValidated) - 1) : ~EnumValidated[i].ok
    /\ EnumValidated[Len(EnumValidated)].cls = "GenericDistro"
    /\ EnumValidated[Len(EnumValidated)].ok

\* C18 (as the specification states it): a source without descriptor,
\* content file and marker files that has any one of Generic's kernel+initrd
\* pairs or boot ISO paths is detected as Generic, after every named class
\* was validated and was false.
C18_GenericLayoutDetected ==
    \A layout \in PairLayouts(Generic_xen_paths) \cup PairLayouts(Generic_hvm_paths)
                    \cup IsoLayouts :
        (NothingButPaths /\ MayHave(layout)) => GenericAfterAllNamed

\* C18 (amended): the same for a kernel+initrd pair of the list of the
\* guest's type (images/xen for a xen guest, images/pxeboot or ppc/ppc64
\* otherwise) and for every boot ISO path.
C18_GenericLayoutOfGuestType ==
    \A layout \in PairLayouts(IF guest.os_type = "xen" THEN Generic_xen_paths
                              ELSE Generic_hvm_paths) \cup IsoLayouts :
        (NothingButPaths /\ MayHave(layout)) => GenericAfterAllNamed

\* an hvm guest, a tree with images/pxeboot/vmlinuz and initrd.img only:
\* GenericDistro was returned as the thirteenth class validated
C18_Witness ==
    /\ NothingButPaths
    /\ guest.os_type = "hvm"
    /\ "images/pxeboot/initrd.img" \in DOMAIN fetcher
    /\ MayHave({"images/pxeboot/vmlinuz", "images/pxeboot/initrd.img"})
    /\ GenericAfterAllNamed

-----------------------------------------------------------------------------
(* Versions.                                                                *)

\* the loop has just validated a probe of class cls against a descriptor
\* whose family has the words `family` and that has a version option
ValidatedAgainst(cls, family) ==
    /\ JustValidated
    /\ trace[Len(trace)].cls = cls
    /\ treeinfo # NoTreeinfo
    /\ MatchAnywhere(Get(treeinfo, General, "family"), family)
    /\ has_option(treeinfo, General, "version")

\* the longest beginning of str that has none of the characters seps
RECURSIVE TextBefore(_, _)
TextBefore(str, seps) ==
    IF str = <<>> \/ str[1] \in seps THEN <<>>
    ELSE <<str[1]>> \o TextBefore(Tail(str), seps)

\* the id OSDB gave as the latest Fedora, and its number L (22 when the id
\* is not "fedora" and a number)
LatestFedora == osdb[QLatestFedora]
LatestFedoraNumber ==
    IF LatestFedora.fam = "fedora" /\ Len(LatestFedora.ver) = 1
    THEN LatestFedora.ver[1] ELSE SafeDefaultFedora

\* the os_variant the table of the specification gives for a version text
FedoraVariantFor(ver) ==
    LET text == TextBefore(ver, {"_", "-"})
    IN  IF ver \in {VerRawhide, VerDevelopment, VerRawhideCap} THEN LatestFedora
        ELSE IF ~isdigit(text) THEN Id("fedora", <<LatestFedoraNumber>>)
        ELSE IF NatOf(text) <= LatestFedoraNumber THEN Id("fedora", <<NatOf(text)>>)
        ELSE LatestFedora

\* C19: against a descriptor of a Fedora family with a version that is not
\* empty, FedoraDistro.isValidStore() is true and sets os_variant: the latest
\* id for rawhide, development and Rawhide; otherwise, with N the text before
\* the first "_" or "-", fedora<N> for a number N <= L, the latest id for a
\* number N > L, and fedora<L> when N is not a number.
C19_FedoraVariant ==
    (ValidatedAgainst("FedoraDistro", FamilyFedora)
        /\ Get(treeinfo, General, "version") # <<>>) =>
        /\ trace[Len(trace)].ok
        /\ outcome = Found("enum")
        /\ store.os_variant = FedoraVariantFor(Get(treeinfo, General, "version"))

\* version "23_A" against a catalog whose latest Fedora is 29: fedora23
C19_Witness ==
    /\ ValidatedAgainst("FedoraDistro", FamilyFedora)
    /\ Get(treeinfo, General, "version") = V23Dev
    /\ LatestFedora = Id("fedora", <<29>>)
    /\ store.os_variant = Id("fedora", <<23>>)

\* the version text is one the class cannot take a number from
FedoraUnparsed(ver) ==
    /\ ver \notin {VerRawhide, VerDevelopment, VerRawhideCap}
    /\ ~isdigit(TextBefore(ver, {"_", "-"}))
RhelUnparsed(ver) == ver = <<>> \/ ~IsDigit(ver[1])

\* C20 (as the specification states it): when the family of the descriptor
\* matches and the version text does not parse, isValidStore() is true and
\* the os_variant is the latest release the catalog knows of that family:
\* for Fedora the latest id; for the RHEL-like classes at least some id.
C20_UnparsedVersionFallsBack ==
    /\ (ValidatedAgainst("FedoraDistro", FamilyFedora)
            /\ FedoraUnparsed(Get(treeinfo, General, "version"))) =>
         /\ trace[Len(trace)].ok
         /\ store.os_variant = Id("fedora", <<LatestFedoraNumber>>)
    /\ \A cls \in {"RHELDistro", "CentOSDistro", "SLDistro"} :
         (ValidatedAgainst(cls, IF cls = "RHELDistro" THEN FamilyRHEL
                                ELSE IF cls = "CentOSDistro" THEN FamilyCentOS
                                ELSE FamilyScientific)
            /\ RhelUnparsed(Get(treeinfo, General, "version"))) =>
            /\ trace[Len(trace)].ok
            /\ store.os_variant # NoVariant

-----------------------------------------------------------------------------
(* The RHEL-like classes against a catalog that is known in advance: one   *)
(* probe is built for a descriptor and validated once.                      *)

V71 == <<"7", ".", "1">>
V7 == <<"7">>
\* "8.-1": int("-1") is -1, so update is negative
V8Neg == <<"8", ".", "-", "1">>

RhelVersions == {V82, V71, V7, V8Neg, <<>>}

\* update as _setRHELVariant uses it after lines 596-597
ClampUpdate(update) == IF update < 0 THEN 0 ELSE update

\* the ids the classes may ask the catalog about for a version text
RhelCatalogIds(ver) ==
    IF ver = <<>> THEN {}
    ELSE LET Ids(parsed) ==
                 {Id(fam, <<parsed[1], u>>) :
                     fam \in {"rhel", "centos"}, u \in 0..ClampUpdate(parsed[2])}
                 \cup {Id(fam, <<parsed[1]>>) : fam \in {"rhel", "centos"}}
         IN  Ids(_parseTreeinfoVersion(ver))

RhelDescriptor(family, ver) ==
    (General :> GeneralSection(<<family>>, <<ver>>, <<"x86_64">>, <<>>))
        @@ (Images("x86_64") :> ImagesSection)

\* OSDB.lookup_os(id) as the run made it
Lookup(q, ok) ==
    [ev |-> "lookup", op |-> "lookup_os", path |-> "", ok |-> ok, cls |-> None,
     id |-> q[2]]

InitRHEL ==
    /\ pc = "probe"
    /\ run = 1
    /\ guest \in {g \in Guests : g.urldistro = None /\ g.os_type = "hvm"}
    /\ location = <<"", "mnt", "iso">>
    /\ fetcher = <<>>
    /\ \E ver \in RhelVersions :
         /\ treeinfo \in {RhelDescriptor(fam, ver) : fam \in {FamilyRHEL, FamilyCentOS}}
         /\ osdb \in [{QLookup(id) : id \in RhelCatalogIds(ver)} -> BOOLEAN]
    /\ stores \in {<<"RHELDistro">>, <<"CentOSDistro">>}
    /\ idx = 1
    /\ store = NoStore
    /\ outcome = Running
    /\ trace = <<>>
    /\ unlinked = <<>>
    /\ clsPaths = NoClsPaths
    /\ globals = ModuleClasses
    /\ allstores = _build_distro_list(ModuleClasses).ret
    /\ earlier = NoEarlier
    /\ scan = NoScan
    /\ fetched = <<>>

\* lines 195-201 for one class, with every catalog lookup written down
ValidateRHEL ==
    /\ pc = "probe"
    /\ LET sclass == stores[idx]
       IN  \E built \in {[Instantiate(sclass, location, guest.arch, guest.os_type)
                              EXCEPT !.treeinfo = treeinfo]} :
           \E r \in {isValidStore(built, Assume(fetcher), osdb, clsPaths)} :
                 /\ store' = r.self
                 /\ clsPaths' = r.clsPaths
                 /\ trace' = trace \o <<ProbeNew("enum", sclass)>>
                        \o [i \in 1..Len(r.asked) |->
                               Lookup(r.asked[i], osdb[r.asked[i]])]
                        \o (IF r.raised = None
                            THEN <<ProbeValid("enum", sclass, r.ret)>> ELSE <<>>)
                 /\ outcome' = IF r.raised # None THEN Error(r.raised)
                               ELSE IF r.ret THEN Found("enum")
                               ELSE outcome
                 /\ pc' = IF r.raised # None THEN "done"
                          ELSE LoopNext(r.ret, idx, Len(stores)).pc
    /\ UNCHANGED <<run, guest, location, fetcher, osdb, treeinfo, stores, idx,
                   unlinked, globals, allstores, earlier,
                   scan, fetched>>

SpecRHEL == InitRHEL /\ [][ValidateRHEL]_vars

\* the ids the run looked up, in order
LookedUp ==
    LET IsLookup(e) == e.ev = "lookup"
        evs == SelectSeq(trace, IsLookup)
    IN  [i \in 1..Len(evs) |-> evs[i].id]

\* rhel<M>.<m>, rhel<M>.<m-1>, ..., rhel<M>.0, rhel<M>
RhelQueryOrder(version, update) ==
    [i \in 1..(update + 2) |->
        IF i <= update + 1 THEN Id("rhel", <<version, update + 1 - i>>)
        ELSE Id("rhel", <<version>>)]

\* seq up to its first id the catalog has; all of seq when it has none
UpToFirstKnown(seq) ==
    LET hits == {i \in 1..Len(seq) : CatalogHas(seq[i])}
    IN  IF hits = {} THEN seq
        ELSE SubSeq(seq, 1, CHOOSE i \in hits : \A j \in hits : i <= j)

\* the probe of class cls was validated against a descriptor of the family
\* with a version that is not empty
RhelValidated(cls, family) ==
    /\ pc # "probe"
    /\ store.cls = cls
    /\ MatchAnywhere(Get(treeinfo, General, "family"), family)
    /\ Get(treeinfo, General, "version") # <<>>

\* C21: with <<M, m>> the numbers taken from the version text and a negative
\* m counted as 0, RHELDistro.isValidStore() is true and os_variant is
\* rhel<M>.<k> for the largest k in 0..m the catalog has, else rhel<M> when the
\* catalog has it, else unset.  The catalog is asked for rhel<M>.<m>,
\* rhel<M>.<m-1>, ..., rhel<M>.0 and then rhel<M>, up to the first id it has.
C21_RhelVariantFallback ==
    LET Settled(parsed) ==
            /\ outcome = Found("enum")
            /\ trace[Len(trace)] = ProbeValid("enum", "RHELDistro", TRUE)
            /\ store.os_variant = RhelFallback(parsed[1], ClampUpdate(parsed[2]))
            /\ LookedUp = UpToFirstKnown(RhelQueryOrder(parsed[1],
                                                        ClampUpdate(parsed[2])))
    IN  RhelValidated("RHELDistro", FamilyRHEL) =>
            Settled(_parseTreeinfoVersion(Get(treeinfo, General, "version")))

\* version "8.2" with a catalog that has rhel8 and none of rhel8.0 .. rhel8.2:
\* four lookups, and rhel8
C21_Witness ==
    /\ RhelValidated("RHELDistro", FamilyRHEL)
    /\ Get(treeinfo, General, "version") = V82
    /\ Len(LookedUp) = 4
    /\ store.os_variant = Id("rhel", <<8>>)

\* version "8.-1": the update counts as 0, and rhel8.0 is the first lookup
C21_WitnessNegative ==
    /\ RhelValidated("RHELDistro", FamilyRHEL)
    /\ Get(treeinfo, General, "version") = V8Neg
    /\ LookedUp = <<Id("rhel", <<8, 0>>)>>
    /\ store.os_variant = Id("rhel", <<8, 0>>)

\* C22: against a descriptor of a CentOS family, CentOSDistro.isValidStore()
\* is true; with R the id the RHEL rule settles on, os_variant is R with
\* "rhel" replaced by "centos" when the catalog has that id, R when it does
\* not, and unset when R is unset.  The centos id is looked up last, and only
\* when R is set.
C22_CentosVariant ==
    LET Replaced(rhel) ==
            /\ outcome = Found("enum")
            /\ trace[Len(trace)] = ProbeValid("enum", "CentOSDistro", TRUE)
            /\ rhel = NoVariant => store.os_variant = NoVariant
            /\ rhel # NoVariant =>
                 /\ LookedUp[Len(LookedUp)] = ReplaceRhelByCentos(rhel)
                 /\ store.os_variant =
                      IF CatalogHas(ReplaceRhelByCentos(rhel))
                      THEN ReplaceRhelByCentos(rhel) ELSE rhel
        Parsed(parsed) ==
            Replaced(RhelFallback(parsed[1], ClampUpdate(parsed[2])))
    IN  /\ RhelValidated("CentOSDistro", FamilyCentOS) =>
            Parsed(_parseTreeinfoVersion(Get(treeinfo, General, "version")))
        /\ (pc # "probe" /\ store.cls = "CentOSDistro"
              /\ MatchAnywhere(Get(treeinfo, General, "family"), FamilyCentOS)
              /\ Get(treeinfo, General, "version") = <<>>) =>
             /\ outcome = Found("enum")
             /\ store.os_variant = NoVariant

\* version "8.2", the catalog lacks rhel8.2, has rhel8.1 and centos8.1
C22_Witness ==
    /\ RhelValidated("CentOSDistro", FamilyCentOS)
    /\ Get(treeinfo, General, "version") = V82
    /\ ~CatalogHas(Id("rhel", <<8, 2>>))
    /\ store.os_variant = Id("centos", <<8, 1>>)

\* the catalog has rhel7.1 and no centos7.1: the rhel id is kept
C22_WitnessKept ==
    /\ RhelValidated("CentOSDistro", FamilyCentOS)
    /\ ~CatalogHas(Id("centos", <<7, 1>>))
    /\ store.os_variant = Id("rhel", <<7, 1>>)

-----------------------------------------------------------------------------
(* The legacy path on its own: a source that has nothing but a content     *)
(* file, read line by line.                                                 *)

\* two VERSION lines ahead of LABEL and BASEARCHS, and a third one behind
ContentTwoVersions ==
    << <<"C", "O", "N", "T", "E", "N", "T", "S", "T", "Y", "L", "E", " ", "1", "1">>,
       <<"V", "E", "R", "S", "I", "O", "N", " ", "1", "2", ".", "3">>,
       <<"V", "E", "R", "S", "I", "O", "N", " ", "1", "1">>,
       <<"L", "A", "B", "E", "L", " ", "S", "U", "S", "E", " ", "L", "i", "n", "u", "x", " ", "E", "n", "t", "e", "r", "p", "r", "i", "s", "e", " ", "S", "e", "r", "v", "e", "r", " ", "1", "2", " ", "S", "P", "3">>,
       <<"B", "A", "S", "E", "A", "R", "C", "H", "S", " ", "x", "8", "6", "_", "6", "4">>,
       <<"V", "E", "R", "S", "I", "O", "N", " ", "9">> >>
\* a REPOID line behind a BASEARCHS line
ContentArchTwice ==
    << <<"C", "O", "N", "T", "E", "N", "T", "S", "T", "Y", "L", "E", " ", "1", "1">>,
       <<"L", "A", "B", "E", "L", " ", "o", "p", "e", "n", "S", "U", "S", "E">>,
       <<"B", "A", "S", "E", "A", "R", "C", "H", "S", " ", "x", "8", "6", "_", "6", "4">>,
       <<"R", "E", "P", "O", "I", "D", " ", "o", "/", "s", "3", "9", "0", "x">>,
       <<"V", "E", "R", "S", "I", "O", "N", " ", "1", "3", ".", "2">> >>
\* the identity comes from SUMMARY; a second VERSION line at the end
ContentSummary ==
    << <<"C", "O", "N", "T", "E", "N", "T", "S", "T", "Y", "L", "E", " ", "1", "1">>,
       <<"S", "U", "M", "M", "A", "R", "Y", " ", "o", "p", "e", "n", "S", "U", "S", "E">>,
       <<"V", "E", "R", "S", "I", "O", "N", " ", "1", "3", ".", "2">>,
       <<"B", "A", "S", "E", "A", "R", "C", "H", "S", " ", "x", "8", "6", "_", "6", "4">>,
       <<"V", "E", "R", "S", "I", "O", "N", " ", "4", "2", ".", "3">> >>
\* the identity comes from DISTRO; a second VERSION line at the end
ContentDistroOpen ==
    << <<"C", "O", "N", "T", "E", "N", "T", "S", "T", "Y", "L", "E", " ", "1", "1">>,
       <<"D", "I", "S", "T", "R", "O", " ", "c", "p", "e", ":", "/", "o", ":", "o", "p", "e", "n", "s", "u", "s", "e", ":", "o", "p", "e", "n", "s", "u", "s", "e", ":", "1", "3", ".", "2", ",", "o", "p", "e", "n", "S", "U", "S", "E">>,
       <<"V", "E", "R", "S", "I", "O", "N", " ", "1", "3", ".", "2">>,
       <<"B", "A", "S", "E", "A", "R", "C", "H", "S", " ", "x", "8", "6", "_", "6", "4">>,
       <<"V", "E", "R", "S", "I", "O", "N", " ", "4", "2", ".", "3">> >>
\* DISTRO and REPOID only, as the comment at line 53 says of the latest trees
ContentSLED ==
    << <<"C", "O", "N", "T", "E", "N", "T", "S", "T", "Y", "L", "E", " ", "1", "1">>,
       <<"D", "I", "S", "T", "R", "O", " ", "c", "p", "e", ":", "/", "o", ":", "s", "u", "s", "e", ":", "s", "l", "e", "d", ":", "1", "2", ":", "s", "p", "3", ",", "S", "U", "S", "E", " ", "L", "i", "n", "u", "x", " ", "E", "n", "t", "e", "r", "p", "r", "i", "s", "e", " ", "D", "e", "s", "k", "t", "o", "p", " ", "1", "2", " ", "S", "P", "3">>,
       <<"R", "E", "P", "O", "I", "D", " ", "o", "/", "x", "8", "6", "_", "6", "4">> >>
ContentSLES12 ==
    << <<"C", "O", "N", "T", "E", "N", "T", "S", "T", "Y", "L", "E", " ", "1", "1">>,
       <<"L", "A", "B", "E", "L", " ", "S", "U", "S", "E", " ", "L", "i", "n", "u", "x", " ", "E", "n", "t", "e", "r", "p", "r", "i", "s", "e", " ", "S", "e", "r", "v", "e", "r", " ", "1", "2", " ", "S", "P", "3">>,
       <<"V", "E", "R", "S", "I", "O", "N", " ", "1", "2", ".", "3">> >>
\* an 8 digit date as version
ContentTumbleweed ==
    << <<"C", "O", "N", "T", "E", "N", "T", "S", "T", "Y", "L", "E", " ", "1", "1">>,
       <<"L", "A", "B", "E", "L", " ", "o", "p", "e", "n", "S", "U", "S", "E">>,
       <<"V", "E", "R", "S", "I", "O", "N", " ", "2", "0", "1", "8", "0", "1", "0", "1">> >>
ContentOld ==
    << <<"C", "O", "N", "T", "E", "N", "T", "S", "T", "Y", "L", "E", " ", "1", "1">>,
       <<"L", "A", "B", "E", "L", " ", "o", "p", "e", "n", "S", "U", "S", "E", " ", "9", ".", "3">>,
       <<"V", "E", "R", "S", "I", "O", "N", " ", "9", ".", "3">> >>
\* an openSUSE LABEL and no VERSION line
ContentLabelOnly ==
    << <<"C", "O", "N", "T", "E", "N", "T", "S", "T", "Y", "L", "E", " ", "1", "1">>,
       <<"L", "A", "B", "E", "L", " ", "o", "p", "e", "n", "S", "U", "S", "E", " ", "1", "3", ".", "2">> >>
\* a DISTRO line without a comma
ContentDistroNoComma ==
    << <<"C", "O", "N", "T", "E", "N", "T", "S", "T", "Y", "L", "E", " ", "1", "1">>,
       <<"D", "I", "S", "T", "R", "O", " ", "c", "p", "e", ":", "/", "o", ":", "o", "p", "e", "n", "s", "u", "s", "e", ":", "o", "p", "e", "n", "s", "u", "s", "e", ":", "1", "3", ".", "2">> >>
\* a VERSION line with an empty value
ContentEmptyVersion ==
    << <<"C", "O", "N", "T", "E", "N", "T", "S", "T", "Y", "L", "E", " ", "1", "1">>,
       <<"L", "A", "B", "E", "L", " ", "o", "p", "e", "n", "S", "U", "S", "E">>,
       <<"V", "E", "R", "S", "I", "O", "N", " ">> >>
\* an SLE identity of four words and no VERSION line
ContentShortSLE ==
    << <<"C", "O", "N", "T", "E", "N", "T", "S", "T", "Y", "L", "E", " ", "1", "1">>,
       <<"L", "A", "B", "E", "L", " ", "S", "U", "S", "E", " ", "L", "i", "n", "u", "x", " ", "E", "n", "t", "e", "r", "p", "r", "i", "s", "e", " ", "S", "e", "r", "v", "e", "r">> >>
\* a REPOID line without a slash
ContentRepoNoSlash ==
    << <<"C", "O", "N", "T", "E", "N", "T", "S", "T", "Y", "L", "E", " ", "1", "1">>,
       <<"L", "A", "B", "E", "L", " ", "o", "p", "e", "n", "S", "U", "S", "E">>,
       <<"V", "E", "R", "S", "I", "O", "N", " ", "1", "3", ".", "2">>,
       <<"R", "E", "P", "O", "I", "D", " ", "x">> >>
ContentHeaderOnly ==
    << <<"C", "O", "N", "T", "E", "N", "T", "S", "T", "Y", "L", "E", " ", "1", "1">> >>
LegacyTexts ==
    {ContentOpenSUSE, ContentSLES, ContentUnknownVersioned, ContentUnknown, <<>>,
     ContentTwoVersions,
     ContentArchTwice,
     ContentSummary,
     ContentDistroOpen,
     ContentSLED,
     ContentSLES12,
     ContentTumbleweed,
     ContentOld,
     ContentLabelOnly,
     ContentDistroNoComma,
     ContentEmptyVersion,
     ContentShortSLE,
     ContentRepoNoSlash,
     ContentHeaderOnly}

\* "/mnt/iso", "http://host/leap/42.3/oss/", "http://host/tumbleweed/42.3/"
ContentLocations ==
    { <<"", "mnt", "iso">>,
      <<"http:", "", "host", "leap", "42.3", "oss", "">>,
      <<"http:", "", "host", "tumbleweed", "42.3", "">> }

InitContent ==
    /\ pc = "content"
    /\ run = 1
    /\ guest = [arch |-> "x86_64", os_type |-> "hvm", urldistro |-> None]
    /\ location \in ContentLocations
    /\ \E a \in {Absent} \cup {File(t) : t \in LegacyTexts} :
         fetcher = [p \in AllPaths |-> IF p = "content" THEN a ELSE Absent]
    /\ \E l \in DbAnswersOf(QListOs) : osdb = (QListOs :> l)
    /\ treeinfo = NoTreeinfo
    /\ stores = <<>>
    /\ idx = 0
    /\ store = NoStore
    /\ outcome = Running
    /\ trace = <<>>
    /\ unlinked = <<>>
    /\ clsPaths = NoClsPaths
    /\ globals = ModuleClasses
    /\ allstores = _build_distro_list(ModuleClasses).ret
    /\ earlier = NoEarlier
    /\ scan = NoScan
    /\ fetched = <<>>

\* lines 113-116: cbuf = fetcher.acquireFileContent("content")
ReadContent ==
    /\ pc = "content"
    /\ trace' = trace \o <<Access("acquireFileContent", "content",
                                  fetcher["content"].exists)>>
    /\ IF fetcher["content"].exists
       THEN /\ pc' = "scan"
            /\ scan' = [p |-> NoFields, next |-> 2, broke |-> FALSE, ret |-> <<>>]
       ELSE /\ pc' = "stores"
            /\ scan' = scan
    /\ UNCHANGED <<run, guest, location, fetcher, osdb, treeinfo, stores, idx,
                   store, outcome, unlinked, clsPaths, globals, allstores,
                   earlier, fetched>>

\* lines 54-87: one turn of the for loop over cbuf.splitlines()[1:]
ScanLine ==
    /\ pc = "scan"
    /\ ~scan.broke
    /\ scan.next <= Len(fetcher["content"].body)
    /\ \E q \in {ParseLine(scan.p, fetcher["content"].body[scan.next])} :
         scan' = [scan EXCEPT !.p = q, !.next = @ + 1, !.broke = ScanDone(q)]
    /\ UNCHANGED <<pc, run, guest, location, fetcher, osdb, treeinfo, stores,
                   idx, store, outcome, trace, unlinked, clsPaths, globals,
                   allstores, earlier, fetched>>

\* lines 89-155 and 168-170: the loop is over; the rest of _parseSUSEContent
\* and of _distroFromSUSEContent, and `if dist: return dist`
ReturnLegacy ==
    /\ pc = "scan"
    /\ scan.broke \/ scan.next > Len(fetcher["content"].body)
    /\ \E r \in {_distroFromSUSEContent(fetcher, osdb, clsPaths, location,
                                        guest.arch, guest.os_type)} :
         /\ trace' = trace \o Tail(r.acc)
         /\ clsPaths' = r.clsPaths
         /\ store' = IF r.ret # <<>> THEN r.ret[1] ELSE store
         /\ outcome' = IF r.raised # None THEN Error(r.raised)
                       ELSE IF r.ret # <<>> THEN Found("legacy")
                       ELSE outcome
         /\ pc' = IF r.raised # None \/ r.ret # <<>> THEN "done" ELSE "stores"
    /\ scan' = [scan EXCEPT !.ret = <<_parseSUSEContent(fetcher["content"].body)>>]
    /\ UNCHANGED <<run, guest, location, fetcher, osdb, treeinfo, stores, idx,
                   unlinked, globals, allstores, earlier, fetched>>

NextContent ==
    \/ ReadContent
    \/ ScanLine
    \/ ReturnLegacy

SpecContent == InitContent /\ [][NextContent]_vars

\* the text of the content file, and the number of its last line
Cbuf == fetcher["content"].body

\* the content file has been read
Reading == scan.next >= 2

\* the largest line number in 2..upto whose line starts with one of the
\* tokens, 0 when there is none; likewise the smallest
LastWith(tokens, upto) ==
    LET at == {i \in 2..upto : \E t \in tokens : StartsWith(Cbuf[i], t)}
    IN  IF at = {} THEN 0 ELSE CHOOSE i \in at : \A j \in at : j <= i
FirstWith(tokens, upto) ==
    LET at == {i \in 2..upto : \E t \in tokens : StartsWith(Cbuf[i], t)}
    IN  IF at = {} THEN 0 ELSE CHOOSE i \in at : \A j \in at : i <= j

\* what line number i gives a field, <<>> for i = 0
GivenBy(field, i) == IF i = 0 THEN <<>> ELSE ParseLine(NoFields, Cbuf[i])[field]

TokensOf(field) ==
    CASE field = "distribution"   -> {TxtLABEL}
      [] field = "distro_summary" -> {TxtSUMMARY}
      [] field = "distro_distro"  -> {TxtDISTRO}
      [] field = "distro_version" -> {TxtVERSION}
      [] field = "distro_arch"    -> {TxtBASEARCHS, TxtDEFAULTBASE, TxtREPOID}

\* lines 89-93: the identity taken from fields p
Identity(p) ==
    IF p.distribution # <<>> THEN p.distribution
    ELSE IF p.distro_summary # <<>> THEN p.distro_summary
    ELSE p.distro_distro

\* lines 96-100: tree_arch for a distro_arch of two parts
TreeArchOf(distro_arch) ==
    IF Contains(strip(distro_arch[2]), Txt_i586_x86_64) THEN Txt_x86_64
    ELSE strip(distro_arch[2])

\* the identity line number i gives, <<>> for i = 0
IdentityGivenBy(i) == IF i = 0 THEN <<>> ELSE Identity(ParseLine(NoFields, Cbuf[i]))

FirstComplete(needed) ==
    LET ok == {k \in 2..Len(Cbuf) : \A tokens \in needed : FirstWith(tokens, k) # 0}
    IN  IF ok = {} THEN 0 ELSE CHOOSE k \in ok : \A j \in ok : k <= j

\* the loop went through lines 2..k and no further
StoppedAfter(k) == scan.next = k + 1

\* C24 (as the specification states it): the loop stops after the first line
\* by which an identity (from LABEL, SUMMARY or DISTRO), a version and an
\* architecture have all been given.
C24_StopsWhenPopulated ==
    LET Stops(k) == k # 0 => StoppedAfter(k)
    IN  scan.ret # <<>> =>
            Stops(FirstComplete({{TxtLABEL, TxtSUMMARY, TxtDISTRO}, {TxtVERSION},
                                 TokensOf("distro_arch")}))

\* C24 (amended): the loop stops after the first line by which a LABEL line,
\* a VERSION line and an architecture line have all been scanned, and the
\* lines behind it change nothing; when there is no such line (the identity
\* comes from SUMMARY or DISTRO, or a field is missing) it goes through every
\* line.  It never goes past the stopping line while it runs.
C24_StopsWhenLabelled ==
    LET Stops(k) ==
            /\ Reading /\ k # 0 => scan.next <= k + 1
            /\ scan.ret # <<>> =>
                 /\ StoppedAfter(IF k # 0 THEN k ELSE Len(Cbuf)) \/ Cbuf = <<>>
                 /\ scan.broke <=> k # 0
                 /\ \A rec \in Range(scan.ret) :
                      rec.raised = None =>
                          /\ rec.distro_version = scan.p.distro_version
                          /\ rec.distribution = Identity(scan.p)
                          /\ scan.p.distro_arch # <<>> =>
                               rec.tree_arch = TreeArchOf(scan.p.distro_arch)
    IN  Stops(FirstComplete({{TxtLABEL}, {TxtVERSION}, TokensOf("distro_arch")}))

\* the loop stopped after line 5 of 6, with the last VERSION line unread
C24_Witness ==
    /\ Cbuf = ContentTwoVersions
    /\ scan.ret # <<>>
    /\ scan.broke
    /\ scan.next = 6

\* identity from SUMMARY: the loop read all lines, the last VERSION line too
C24_WitnessSummary ==
    /\ Cbuf = ContentSummary
    /\ scan.ret # <<>>
    /\ ~scan.broke
    /\ scan.p.distro_version = <<WordVERSION, <<"4", "2", ".", "3">>>>

\* the text after the first "." of str, <<>> when str has none
AfterDot(str) == IF Len(split1(str, ".")) = 2 THEN <<split1(str, ".")[2]>> ELSE <<>>

\* the id the table of the specification gives a class key and a version V
SuseIdFor(key, V) ==
    LET major == TextBefore(V, {"."})
    IN  IF NatOf(major) < 10 THEN Id(key, <<9>>)
        ELSE IF key \in {"sles", "sled"}
        THEN [fam |-> key, ver |-> <<NatOf(major)>>,
              tag |-> IF AfterDot(V) # <<>> THEN <<"sp", AfterDot(V)[1]>> ELSE <<>>]
        ELSE IF Len(major) = 8
        THEN [fam |-> key, ver |-> <<>>, tag |-> <<"tumbleweed">>]
        ELSE Id(key, VersionNumbers(V))

\* the first entry of the catalog named opensuse<code> with /<code>/ in the
\* location, <<>> when there is none
OpensuseOfLocation ==
    LET os == osdb[QListOs]
        hits == {i \in 1..Len(os) :
                    /\ os[i].name.fam = "opensuse"
                    /\ HasSegment(location, NameSuffix(os[i].name))}
    IN  IF hits = {} THEN <<>>
        ELSE <<os[CHOOSE i \in hits : \A j \in hits : i <= j].name>>

\* the legacy path returned a probe of a SUSE class
LegacySuseReturned ==
    /\ pc = "done"
    /\ outcome = Found("legacy")
    /\ store.cls \in {"SLESDistro", "SLEDDistro", "OpensuseDistro"}

\* C25: a SUSE probe the legacy path returns has, with V its content version
\* and M the text of V before the first ".": <key>9 for M < 10; for SLES and
\* SLED <key><M>, and sp<rest> behind it when V has a "."; for openSUSE
\* opensusetumbleweed when M has 8 digits and opensuse<V> otherwise; and in
\* place of that id the first catalog entry opensuse<code> with /<code>/ in
\* the location, when there is one.
C25_SuseVariant ==
    LegacySuseReturned =>
        store.os_variant =
            IF OpensuseOfLocation # <<>> THEN OpensuseOfLocation[1]
            ELSE SuseIdFor(urldistro(store.cls), strip(store.version_from_content[2]))

\* VERSION 12.3 of a SLES tree: sles12sp3
C25_Witness ==
    /\ LegacySuseReturned
    /\ Cbuf = ContentSLES12
    /\ store.os_variant = [fam |-> "sles", ver |-> <<12>>, tag |-> <<"sp", <<"3">>>>]

\* an 8 digit version: opensusetumbleweed
C25_WitnessTumbleweed ==
    /\ LegacySuseReturned
    /\ Cbuf = ContentTumbleweed
    /\ store.os_variant = [fam |-> "opensuse", ver |-> <<>>, tag |-> <<"tumbleweed">>]

\* /42.3/ in the location and opensuse42.3 in the catalog
C25_WitnessLocation ==
    /\ LegacySuseReturned
    /\ Cbuf = ContentSLES12
    /\ store.os_variant = Id("opensuse", <<42, 3>>)

\* C29 (as the specification states it): whatever the text of the content
\* file, the legacy path returns a probe or returns nothing; no exception
\* leaves it.
C29_LegacyNeverRaises ==
    Reading => outcome.kind # "error"

\* what the path does for each of the four texts the specification names
C29_RaisesOnNamedTexts ==
    (pc = "done" /\ Cbuf \in {ContentLabelOnly, ContentDistroNoComma,
                              ContentShortSLE, ContentEmptyVersion})
        => outcome = Error(IF Cbuf = ContentEmptyVersion THEN "ValueError"
                           ELSE "IndexError")

-----------------------------------------------------------------------------
(* One validation of the loop, as the trace shows it.                       *)

\* the position of the last probe the loop of lines 195-201 built, 0 if none
LastBuilt ==
    LET at == {i \in 1..Len(trace) : trace[i].ev = "new" /\ trace[i].op = "enum"}
    IN  IF at = {} THEN 0 ELSE CHOOSE i \in at : \A j \in at : j <= i

\* the fetcher calls of the isValidStore() of that probe, in order
LastCalls ==
    LET Behind(k) == \A j \in (LastBuilt + 1)..k : trace[j].ev = "access"
        n == Cardinality({k \in (LastBuilt + 1)..Len(trace) : Behind(k)})
    IN  [k \in 1..n |-> trace[LastBuilt + k]]

\* what that isValidStore() returned: <<>> when it raised
LastReturned ==
    LET at == {k \in (LastBuilt + 1)..Len(trace) : trace[k].ev = "valid"}
    IN  IF at = {} THEN <<>> ELSE <<trace[CHOOSE k \in at : TRUE].ok>>

\* the loop has validated a probe of one of the classes
LoopValidated(classes) ==
    /\ LastBuilt # 0
    /\ trace[LastBuilt].cls \in classes
    /\ store.cls = trace[LastBuilt].cls

SuseClasses == {"SuseDistro", "SLESDistro", "SLEDDistro", "OpensuseDistro"}

\* C26: a probe of a SUSE class that the loop builds returns False from
\* isValidStore() without a call to the fetcher, with or without a descriptor
\* and whatever the hint; the four SUSE classes are in the registry, and a
\* probe the loop returns is of none of them.
C26_SuseOnlyThroughContent ==
    /\ SuseClasses \subseteq {allstores[i].cls : i \in 1..Len(allstores)}
    /\ LoopValidated(SuseClasses) =>
         /\ LastCalls = <<>>
         /\ LastReturned = <<FALSE>>
    /\ outcome = Found("enum") => store.cls \notin SuseClasses

\* hint opensuse and neither descriptor nor content file: OpensuseDistro is
\* built first and is false
C26_Witness ==
    /\ guest.urldistro = "opensuse"
    /\ treeinfo = NoTreeinfo
    /\ EnumInstantiated = <<"OpensuseDistro">>
    /\ LoopValidated(SuseClasses)
    /\ LastReturned = <<FALSE>>

\* with a descriptor: a SUSE probe is built behind the classes that use it
C26_WitnessDescriptor ==
    /\ treeinfo # NoTreeinfo
    /\ LoopValidated({"SLESDistro"})
    /\ LastReturned = <<FALSE>>

\* what the source answered for a path; Absent for a path never asked for
Answered(path) == IF path \in DOMAIN fetcher THEN fetcher[path] ELSE Absent

\* the calls _check_manifest and _check_info make for a file
ExistenceThenContent(path) ==
    <<Access("hasFile", path, Answered(path).exists)>>
    \o (IF Answered(path).exists
        THEN <<Access("acquireFileContent", path, TRUE)>> ELSE <<>>)

\* a line of the file has the word
FileHasWord(path, word) ==
    /\ Answered(path).exists
    /\ \E i \in 1..Len(Answered(path).body) : word \in Range(Answered(path).body[i])

\* a line of the file starts with the word
FileStartsWith(path, word) ==
    /\ Answered(path).exists
    /\ \E i \in 1..Len(Answered(path).body) :
         Answered(path).body[i] # <<>> /\ Answered(path).body[i][1] = word

\* the three checks of a Debian or Ubuntu probe on an x86_64 guest, as the
\* specification gives them
RegularTree(cls) ==
    FileHasWord("current/images/MANIFEST",
                   IF cls = "UbuntuDistro" THEN "ubuntu-installer"
                   ELSE "debian-installer")
DailyTree(cls) ==
    FileHasWord("daily/MANIFEST",
                   IF cls = "UbuntuDistro" THEN "ubuntu-installer"
                   ELSE "debian-installer")
InstallCd(cls) ==
    FileStartsWith(".disk/info", IF cls = "UbuntuDistro" THEN "Ubuntu" ELSE "Debian")

ContentReaders == {"DebianDistro", "UbuntuDistro", "MandrivaDistro", "ALTLinuxDistro"}

\* C28: in the isValidStore() of a probe the loop builds, every
\* acquireFileContent of a file comes behind a hasFile of the same file that
\* was true; a file whose hasFile was false is not fetched; and a probe of a
\* class that reads marker files returns False, having fetched nothing, when
\* all its hasFile calls were false.
C28_ExistenceBeforeContent ==
    LET Calls(calls) ==
            /\ \A k \in 1..Len(calls) :
                 calls[k].op = "acquireFileContent" =>
                     \E j \in 1..(k - 1) :
                         calls[j] = Access("hasFile", calls[k].path, TRUE)
            /\ \A j, k \in 1..Len(calls) :
                 (calls[j].op = "hasFile" /\ ~calls[j].ok) =>
                     ~(calls[k].op = "acquireFileContent"
                       /\ calls[k].path = calls[j].path)
            /\ (LoopValidated(ContentReaders)
                  /\ \A k \in 1..Len(calls) : calls[k].op = "hasFile" /\ ~calls[k].ok)
                 => LastReturned = <<FALSE>>
    IN  LastBuilt # 0 => Calls(LastCalls)

\* an ALT Linux probe: hasFile(".disk/info") was true, then the content
C28_Witness ==
    /\ LoopValidated({"ALTLinuxDistro"})
    /\ LastCalls = <<Access("hasFile", ".disk/info", TRUE),
                     Access("acquireFileContent", ".disk/info", TRUE)>>

-----------------------------------------------------------------------------
(* acquireKernel: the kernel and initrd of a validated probe are fetched.  *)
(* The probe and what the source holds are chosen at the start; one step   *)
(* is one call of store.acquireKernel(guest).                              *)

\* lines 457-460: the class-level lists of RedHatDistro
RedHat_hvm_paths == << <<"images/pxeboot/vmlinuz", "images/pxeboot/initrd.img">> >>
RedHat_xen_paths == << <<"images/xen/vmlinuz", "images/xen/initrd.img">> >>
\* lines 644-645
SL_hvm_paths ==
    RedHat_hvm_paths
        \o << <<"images/SL/pxeboot/vmlinuz", "images/SL/pxeboot/initrd.img">> >>
\* lines 1021-1022
ALTLinux_hvm_paths == << <<"syslinux/alt0/vmlinuz", "syslinux/alt0/full.cz">> >>

\* self._hvm_kernel_paths and self._xen_kernel_paths as attribute lookup
\* finds them: on the instance, else on its class, else on Distro
AttrKernelPaths(self, cp) ==
    IF ~self.usesClassPaths
    THEN [hvm |-> self._hvm_kernel_paths, xen |-> self._xen_kernel_paths]
    ELSE IF self.cls = "SLDistro"
    THEN [hvm |-> SL_hvm_paths, xen |-> RedHat_xen_paths]
    ELSE IF self.cls \in {"RedHatDistro", "FedoraDistro", "RHELDistro", "CentOSDistro"}
    THEN [hvm |-> RedHat_hvm_paths, xen |-> RedHat_xen_paths]
    ELSE IF self.cls = "ALTLinuxDistro"
    THEN [hvm |-> ALTLinux_hvm_paths, xen |-> <<>>]
    ELSE [hvm |-> cp.hvm, xen |-> cp.xen]

\* fetcher.location.startswith("/"), the location split at "/"
StartsWithSlash(fetcherLocation) ==
    Len(fetcherLocation) >= 2 /\ fetcherLocation[1] = ""

\* _get_method_arg of Distro, RedHatDistro and SuseDistro
_get_method_arg(self) ==
    IF self.cls \in {"SuseDistro", "SLESDistro", "SLEDDistro", "OpensuseDistro"}
    THEN "install"
    ELSE IF /\ self.cls \in {"RedHatDistro", "FedoraDistro", "RHELDistro",
                             "CentOSDistro", "SLDistro"}
            /\ self._version_number # <<>>
            /\ \/ urldistro(self.cls) = "rhel" /\ self._version_number[1] >= 7
               \/ urldistro(self.cls) = "fedora" /\ self._version_number[1] >= 19
    THEN "inst.repo"
    ELSE "method"

\* What acquireKernel did: ret is <<>> or <<[kernel, initrd, args]>>, the
\* local copies named by the paths they were fetched from; args is <<>> ('')
\* or <<[key, value]>> ("key=value"); raised is the exception that left it;
\* acc holds the fetcher calls in order; unlinked the copies os.unlink removed.
KernelResult(ret, raised, acc, unl) ==
    [ret |-> ret, raised |-> raised, acc |-> acc, unlinked |-> unl]

\* mutant: the kernel copy is kept when the initrd fetch fails
_kernelFetchHelper_leak(self, f, fetcherLocation, kernelpath, initrdpath) ==
    LET k == <<Access("acquireFile", kernelpath, f[kernelpath].exists)>>
        i == <<Access("acquireFile", initrdpath, f[initrdpath].exists)>>
        args == IF StartsWithSlash(fetcherLocation) THEN <<>>
                ELSE <<[key |-> _get_method_arg(self), value |-> fetcherLocation]>>
    IN  IF ~f[kernelpath].exists THEN KernelResult(<<>>, "ValueError", k, <<>>)
        ELSE IF ~f[initrdpath].exists
        THEN KernelResult(<<>>, "ValueError", k \o i, <<>>)
        ELSE KernelResult(<<[kernel |-> kernelpath, initrd |-> initrdpath,
                             args |-> args]>>, None, k \o i, <<>>)

\* Distro._kernelFetchHelper
_kernelFetchHelper(self, f, fetcherLocation, kernelpath, initrdpath) ==
    LET \* line 341
        k == <<Access("acquireFile", kernelpath, f[kernelpath].exists)>>
        \* line 348
        i == <<Access("acquireFile", initrdpath, f[initrdpath].exists)>>
        \* lines 342-345
        args == IF StartsWithSlash(fetcherLocation) THEN <<>>
                ELSE <<[key |-> _get_method_arg(self), value |-> fetcherLocation]>>
    IN  IF ~f[kernelpath].exists THEN KernelResult(<<>>, "ValueError", k, <<>>)
        ELSE IF ~f[initrdpath].exists
        \* lines 350-352
        THEN KernelResult(<<>>, "ValueError", k \o i, <<kernelpath>>)
        ELSE KernelResult(<<[kernel |-> kernelpath, initrd |-> initrdpath,
                             args |-> args]>>, None, k \o i, <<>>)

\* lines 271-274: every pair is tried and the last one present is kept;
\* plan is [kernelpath, initrdpath], each <<>> (None) or <<path>>
RECURSIVE FallbackScan(_, _, _)
FallbackScan(f, paths, plan) ==
    IF paths = <<>> THEN [plan |-> plan, acc |-> <<>>]
    ELSE LET kpath == Head(paths)[1]
             ipath == Head(paths)[2]
             a == <<Access("hasFile", kpath, hasFile(f, kpath))>>
                  \o (IF hasFile(f, kpath)
                      THEN <<Access("hasFile", ipath, hasFile(f, ipath))>>
                      ELSE <<>>)
             here == IF hasFile(f, kpath) /\ hasFile(f, ipath)
                     THEN [kernelpath |-> <<kpath>>, initrdpath |-> <<ipath>>]
                     ELSE plan
             rest == FallbackScan(f, Tail(paths), here)
         IN  [plan |-> rest.plan, acc |-> a \o rest.acc]

\* lines 255-262: [raised, kernelpath, initrdpath]
TreeinfoPlan(self) ==
    LET NoPlan(exc) == [raised |-> exc, kernelpath |-> <<>>, initrdpath |-> <<>>]
        Initrd(k, i) ==
            IF i.raised = "NoSectionError"
            THEN [raised |-> None, kernelpath |-> <<k.value>>, initrdpath |-> <<>>]
            ELSE IF i.raised # None THEN NoPlan(i.raised)
            ELSE [raised |-> None, kernelpath |-> <<k.value>>,
                  initrdpath |-> <<i.value>>]
        Kernel(k) ==
            IF k.raised = "NoSectionError" THEN NoPlan(None)
            ELSE IF k.raised # None THEN NoPlan(k.raised)
            ELSE Initrd(k, _getTreeinfoMedia(self, "initrd"))
    IN  IF self.treeinfo = NoTreeinfo THEN NoPlan(None)
        ELSE Kernel(_getTreeinfoMedia(self, "kernel"))

\* Distro.acquireKernel
Distro_acquireKernel(self, f, fetcherLocation, cp) ==
    LET \* lines 264-274
        Planned(t) ==
            IF t.kernelpath = <<>> \/ t.initrdpath = <<>>
            THEN FallbackScan(f, IF self.type \in {None, "hvm"}
                                 THEN AttrKernelPaths(self, cp).hvm
                                 ELSE AttrKernelPaths(self, cp).xen,
                              [kernelpath |-> t.kernelpath,
                               initrdpath |-> t.initrdpath])
            ELSE [plan |-> [kernelpath |-> t.kernelpath,
                            initrdpath |-> t.initrdpath], acc |-> <<>>]
        \* lines 276-281
        Fetched(s, h) == KernelResult(h.ret, h.raised, s.acc \o h.acc, h.unlinked)
        Scanned(s) ==
            IF s.plan.kernelpath = <<>> \/ s.plan.initrdpath = <<>>
            THEN KernelResult(<<>>, "RuntimeError", s.acc, <<>>)
            ELSE Fetched(s, _kernelFetchHelper(self, f, fetcherLocation,
                                               s.plan.kernelpath[1],
                                               s.plan.initrdpath[1]))
        Tried(t) ==
            IF t.raised # None THEN KernelResult(<<>>, t.raised, <<>>, <<>>)
            ELSE Scanned(Planned(t))
    IN  Tried(TreeinfoPlan(self))

\* GenericDistro.acquireKernel
Generic_acquireKernel(self, f, fetcherLocation, cp) ==
    IF self._valid_kernel_path = <<>>
    THEN KernelResult(<<>>, "ValueError", <<>>, <<>>)
    ELSE _kernelFetchHelper(self, f, fetcherLocation,
                            self._valid_kernel_path[1][1],
                            self._valid_kernel_path[1][2])

\* store.acquireKernel(guest), dispatched on the class of the instance
acquireKernel(self, f, fetcherLocation, cp) ==
    IF self.cls = "GenericDistro"
    THEN Generic_acquireKernel(self, f, fetcherLocation, cp)
    ELSE Distro_acquireKernel(self, f, fetcherLocation, cp)

\* the media paths of the Red Hat layout and of GenericDistro
KernelPaths ==
    {"images/xen/vmlinuz", "images/xen/initrd.img", "images/pxeboot/vmlinuz",
     "images/pxeboot/initrd.img", "ppc/ppc64/vmlinuz", "ppc/ppc64/initrd.img"}

\* a descriptor whose images section names the kernel and no initrd
DescriptorNoInitrd ==
    (General :> GeneralSection(<<FamilyFedora>>, <<V23>>, <<"x86_64">>, <<>>))
        @@ (Images("x86_64") :> ("kernel" :> "images/pxeboot/vmlinuz"))

\* the trees a kernel is fetched from: the class that matched and the
\* descriptor it was given
KernelCases ==
    {[cls |-> "FedoraDistro",
      treeinfo |-> (General :> GeneralSection(<<FamilyFedora>>, <<V23>>,
                                             <<"x86_64">>, <<>>))
                       @@ (Images("x86_64") :> ImagesSection)],
     [cls |-> "FedoraDistro",
      treeinfo |-> (General :> GeneralSection(<<FamilyFedora>>, <<V23>>,
                                             <<"x86_64">>, <<>>))],
     [cls |-> "FedoraDistro", treeinfo |-> DescriptorNoInitrd],
     [cls |-> "RHELDistro", treeinfo |-> RhelDescriptor(FamilyRHEL, V71)],
     [cls |-> "CentOSDistro", treeinfo |-> RhelDescriptor(FamilyCentOS, V71)],
     [cls |-> "RHELDistro", treeinfo |-> NoTreeinfo],
     [cls |-> "GenericDistro", treeinfo |-> NoTreeinfo],
     [cls |-> "OpensuseDistro", treeinfo |-> NoTreeinfo]}

\* the probe getDistroStore returned for a tree, and the class-level lists
\* afterwards: <<>> when the tree does not match the class
MatchedStore(c, f, db, fetcherLocation, arch, vmtype) ==
    IF c.cls = "OpensuseDistro"
    THEN LET Got(r) == IF r.raised = None /\ r.ret # <<>> /\ r.valid = <<TRUE>>
                       THEN <<[self |-> r.ret[1], clsPaths |-> r.clsPaths]>>
                       ELSE <<>>
         IN  Got(_distroFromSUSEContent("content" :> File(ContentTumbleweed), db,
                                        NoClsPaths, fetcherLocation, arch, vmtype))
    ELSE LET Got(r) == IF r.raised = None /\ r.ret
                       THEN <<[self |-> r.self, clsPaths |-> r.clsPaths]>>
                       ELSE <<>>
         IN  Got(isValidStore([Instantiate(c.cls, fetcherLocation, arch, vmtype)
                                   EXCEPT !.treeinfo = c.treeinfo],
                              f, db, NoClsPaths))

\* the kernel and initrd paths a probe may ask for
PlanPaths(self, cp) ==
    LET Sides(paths) == UNION {{paths[i][1], paths[i][2]} : i \in 1..Len(paths)}
    IN  Sides(AttrKernelPaths(self, cp).hvm) \cup Sides(AttrKernelPaths(self, cp).xen)

InitKernel ==
    /\ pc = "kernel"
    /\ run = 1
    /\ guest \in {g \in Guests : g.urldistro = None}
    /\ location \in Locations
    /\ \E c \in KernelCases :
         /\ treeinfo = c.treeinfo
         /\ stores = <<c.cls>>
         /\ osdb = IF c.cls = "OpensuseDistro" THEN (QListOs :> <<>>)
                   ELSE AssumeDb(<<>>, QueriesFor([NewStore(c.cls, location,
                                    guest.arch, guest.os_type)
                                        EXCEPT !.treeinfo = c.treeinfo]))
         /\ IF c.cls = "OpensuseDistro"
            THEN \E m \in {MatchedStore(c, <<>>, osdb, location, guest.arch,
                                        guest.os_type)} :
                   /\ m # <<>>
                   /\ store = m[1].self
                   /\ clsPaths = m[1].clsPaths
                   /\ fetcher \in [PlanPaths(m[1].self, m[1].clsPaths)
                                      -> {Absent, File(<<>>)}]
                   /\ outcome = Found("legacy")
            ELSE /\ \E media \in [KernelPaths -> {Absent, File(<<>>)}] :
                      fetcher = [p \in AllPaths |->
                                    IF p \in KernelPaths THEN media[p]
                                    ELSE IF p \in {"Server", "images/boot.iso"}
                                    THEN File(<<>>)
                                    ELSE Absent]
                 /\ \E m \in {MatchedStore(c, fetcher, osdb, location, guest.arch,
                                           guest.os_type)} :
                      /\ m # <<>>
                      /\ store = m[1].self
                      /\ clsPaths = m[1].clsPaths
                 /\ outcome = Found("enum")
    /\ idx = 1
    /\ trace = <<>>
    /\ unlinked = <<>>
    /\ globals = ModuleClasses
    /\ allstores = _build_distro_list(ModuleClasses).ret
    /\ earlier = NoEarlier
    /\ scan = NoScan
    /\ fetched = <<>>

\* store.acquireKernel(guest) on the probe getDistroStore returned
AcquireKernel ==
    /\ pc = "kernel"
    /\ \E r \in {acquireKernel(store, fetcher, location, clsPaths)} :
         /\ trace' = trace \o r.acc
         /\ unlinked' = unlinked \o r.unlinked
         /\ fetched' = r.ret
         /\ outcome' = IF r.raised # None THEN Error(r.raised) ELSE outcome
    /\ pc' = "done"
    /\ UNCHANGED <<run, guest, location, fetcher, osdb, treeinfo, stores, idx,
                   store, clsPaths, globals, allstores, earlier, scan>>

SpecKernel == InitKernel /\ [][AcquireKernel]_vars

\* the acquireFile calls of the run, in order
Acquired ==
    LET IsAcquire(e) == e.ev = "access" /\ e.op = "acquireFile"
    IN  SelectSeq(trace, IsAcquire)

\* the paths the probe may take a kernel from: the first of each pair of its
\* lists, the kernel its descriptor names, the kernel validation recorded
KernelSide ==
    LET Firsts(paths) == {paths[i][1] : i \in 1..Len(paths)}
    IN  IF store.cls = "GenericDistro"
        THEN {store._valid_kernel_path[i][1] : i \in 1..Len(store._valid_kernel_path)}
        ELSE Firsts(AttrKernelPaths(store, clsPaths).hvm)
                 \cup Firsts(AttrKernelPaths(store, clsPaths).xen)
                 \cup (IF has_option(store.treeinfo, Images("x86_64"), "kernel")
                       THEN {Get(store.treeinfo, Images("x86_64"), "kernel")}
                       ELSE {})

\* C30: once acquireKernel is over, at most two files were fetched, the
\* kernel first and the initrd second.  If the initrd fetch failed, the
\* kernel copy was unlinked and the failure of the fetch left acquireKernel;
\* after any failure nothing is returned and every copy that was fetched
\* has been unlinked.  On success the copies of the two fetched paths are
\* returned with args, which is empty when the location starts with "/" and
\* "<method arg>=<location>" otherwise, and nothing was unlinked.
C30_KernelFetch ==
    pc = "done" =>
    LET acq == Acquired
    IN  /\ Len(acq) <= 2
        /\ Len(acq) >= 1 => acq[1].path \in KernelSide
        /\ Len(acq) = 2 => acq[1].ok /\ acq[2].path \notin KernelSide
        /\ Len(acq) = 2 /\ ~acq[2].ok =>
              /\ unlinked = <<acq[1].path>>
              /\ outcome = Error("ValueError")
              /\ fetched = <<>>
        /\ outcome.kind = "error" =>
              /\ fetched = <<>>
              /\ \A k \in 1..Len(acq) : acq[k].ok => acq[k].path \in Range(unlinked)
        /\ outcome.kind # "error" =>
              /\ Len(acq) = 2 /\ acq[2].ok
              /\ unlinked = <<>>
              /\ Len(fetched) = 1
              /\ fetched[1].kernel = acq[1].path
              /\ fetched[1].initrd = acq[2].path
              /\ fetched[1].args =
                    IF location[1] = "" THEN <<>>
                    ELSE <<[key |-> _get_method_arg(store), value |-> location]>>

\* the initrd fetch failed after the kernel was fetched
C30_Witness ==
    /\ pc = "done"
    /\ Len(Acquired) = 2
    /\ Acquired[1].ok /\ ~Acquired[2].ok
    /\ unlinked = <<Acquired[1].path>>
    /\ outcome = Error("ValueError")

\* both were fetched from a http location by a Fedora 23 probe
C30_WitnessArgs ==
    /\ pc = "done"
    /\ fetched # <<>>
    /\ store.cls = "FedoraDistro"
    /\ fetched[1].args = <<[key |-> "inst.repo", value |-> location]>>

\* both were fetched from a local directory
C30_WitnessLocal ==
    /\ pc = "done"
    /\ fetched # <<>>
    /\ location = <<"", "mnt", "iso">>
    /\ fetched[1].args = <<>>

\* a SUSE probe names its argument "install", others "method"
C30_WitnessInstall ==
    /\ pc = "done"
    /\ fetched # <<>>
    /\ store.cls = "OpensuseDistro"
    /\ fetched[1].args = <<[key |-> "install", value |-> location]>>

C30_WitnessMethod ==
    /\ pc = "done"
    /\ fetched # <<>>
    /\ store.cls = "CentOSDistro"
    /\ fetched[1].args = <<[key |-> "method", value |-> location]>>

====
